---- MODULE Spec2Model ----
(***************************************************************************)
(* Quote-mining scripts of the prayer-room PWA: the 1923 handbook miner    *)
(* (tools/mine_handbook_1923_quotes.py), the cleaner                       *)
(* (tools/clean_handbook_1923_quotes.py) and the review/triage script      *)
(* (tools/review_handbook_quotes.py).                                      *)
(*                                                                         *)
(* Texts are TLA+ strings, read character by character with SubSeq.  The   *)
(* model's alphabet is ASCII.  Scores are held in hundredths (1.8 is 180). *)
(***************************************************************************)
EXTENDS Integers, Sequences, FiniteSets, TLC

(***************************************************************************)
(* Characters and the str methods the scripts use                          *)
(***************************************************************************)

UpperAlpha == "ABCDEFGHIJKLMNOPQRSTUVWXYZ"

LowerAlpha == "abcdefghijklmnopqrstuvwxyz"

Digits == "0123456789"

\* F applied to the value of v: a local name for a value that is computed once
Let(v, F(_)) == CHOOSE r \in {F(x) : x \in {v}} : TRUE

Min(S) == CHOOSE m \in S : \A n \in S : m <= n

Chr(s, i) == SubSeq(s, i, i)

CharsOf(s) == {Chr(s, i) : i \in 1..Len(s)}

UpperSet == CharsOf(UpperAlpha)

LowerSet == CharsOf(LowerAlpha)

DigitSet == CharsOf(Digits)

\* \s of the re module, over the model's alphabet
SpaceSet == {" ", "\n", "\t", "\r"}

\* \w of the re module, over the model's alphabet
WordSet == UpperSet \cup LowerSet \cup DigitSet \cup {"_"}

LowerChar(c) ==
    IF c \in UpperSet
    THEN Chr(LowerAlpha, CHOOSE i \in 1..26 : Chr(UpperAlpha, i) = c)
    ELSE c

\* the concatenation of pieces[lo..hi]
RECURSIVE Cat(_, _, _)
Cat(pieces, lo, hi) ==
    IF lo > hi THEN ""
    ELSE IF lo = hi THEN pieces[lo]
    ELSE LET mid == (lo + hi) \div 2
         IN  Cat(pieces, lo, mid) \o Cat(pieces, mid + 1, hi)

\* s.lower()
Lower(s) == Cat([i \in 1..Len(s) |-> LowerChar(Chr(s, i))], 1, Len(s))

\* s[i:] of Python, with 1-based positions
From(s, i) == SubSeq(s, i, Len(s))

\* s[i-1:j] of Python: the characters at positions i..j that s has
Slice(s, i, j) == SubSeq(s, IF i < 1 THEN 1 ELSE i, IF j > Len(s) THEN Len(s) ELSE j)

StartsAt(s, i, k) == i >= 1 /\ i + Len(k) - 1 <= Len(s) /\ SubSeq(s, i, i + Len(k) - 1) = k

\* k in s
Contains(s, k) == \E i \in 1..(Len(s) + 1) : StartsAt(s, i, k)

\* the first position at or after i that holds no character of cs (Len(s) + 1 when none)
SkipIn(s, i, cs) ==
    IF i > Len(s) THEN i
    ELSE CHOOSE k \in i..(Len(s) + 1) :
            /\ \A j \in i..(k - 1) : Chr(s, j) \in cs
            /\ k = Len(s) + 1 \/ Chr(s, k) \notin cs

\* the last position that holds no character of cs (0 when none)
SkipBack(s, cs) ==
    CHOOSE k \in 0..Len(s) :
        /\ \A j \in (k + 1)..Len(s) : Chr(s, j) \in cs
        /\ k = 0 \/ Chr(s, k) \notin cs

LStrip(s, cs) == SubSeq(s, SkipIn(s, 1, cs), Len(s))

RStrip(s, cs) == SubSeq(s, 1, SkipBack(s, cs))

\* s.strip(chars); s.strip() is Strip(s, SpaceSet)
Strip(s, cs) == RStrip(LStrip(s, cs), cs)

\* \b of the re module at the gap before position i (1..Len(s)+1)
IsWordAt(s, i) == i >= 1 /\ i <= Len(s) /\ Chr(s, i) \in WordSet

WordBoundary(s, i) == IsWordAt(s, i - 1) /= IsWordAt(s, i)

\* s.replace(c, d) for a single character c
ReplaceChar(s, c, d) == Cat([i \in 1..Len(s) |-> IF Chr(s, i) = c THEN d ELSE Chr(s, i)], 1, Len(s))

\* s.replace(c, "")
RemoveChar(s, c) == ReplaceChar(s, c, "")

\* re.sub(r"[cs]+", rep, s): every maximal run of characters of cs becomes rep
CollapseRuns(s, cs, rep) ==
    Cat([i \in 1..Len(s) |->
            IF Chr(s, i) \notin cs THEN Chr(s, i)
            ELSE IF i > 1 /\ Chr(s, i - 1) \in cs THEN "" ELSE rep],
        1, Len(s))

\* re.sub(r"\s+", " ", s)
CollapseWS(s) == CollapseRuns(s, SpaceSet, " ")

\* " ".join(parts) and "\n".join(parts)
RECURSIVE Join(_, _)
Join(parts, sep) ==
    IF parts = <<>> THEN ""
    ELSE IF Len(parts) = 1 THEN parts[1]
    ELSE parts[1] \o sep \o Join(Tail(parts), sep)

(***************************************************************************)
(* Characters outside ASCII that the scripts name, as the model writes     *)
(* them: each is a non-word, non-space character like the original.        *)
(***************************************************************************)

\* U+00AD, the soft hyphen
SOFT_HYPHEN == "~"

\* U+00AC, the OCR line-join marker
NOT_SIGN == "^"

\* U+2014 and U+2013, the em and en dash
EM_DASH == "="

EN_DASH == "+"

\* U+201C, U+201D, U+2018, U+2019, the curly quotes
LDQUO == "{"

RDQUO == "}"

LSQUO == "<"

RSQUO == ">"

\* Optional[int]: None
None == 0

(***************************************************************************)
(* mine_handbook_1923_quotes.py: normalization                             *)
(***************************************************************************)

\* the end of the run of characters of cs that starts at i (i - 1 when there is none)
RunEnd(s, i, cs) == SkipIn(s, i, cs) - 1

\* the end of the whitespace run that starts at i (i - 1 when there is none)
WsEnd(s, i) == RunEnd(s, i, SpaceSet)

\* HARD_HYPHEN_BREAK_RE matched at i: (\w)-\s*\n\s*(\w); the position of group 2, or 0
HyphenBreakAt(s, i) ==
    IF IsWordAt(s, i) /\ i + 1 <= Len(s) /\ Chr(s, i + 1) = "-"
    THEN Let(WsEnd(s, i + 2), LAMBDA e :
             IF Contains(SubSeq(s, i + 2, e), "\n") /\ IsWordAt(s, e + 1) THEN e + 1 ELSE 0)
    ELSE 0

\* whether the left-to-right scan of sub takes the match at i, one of starts: a match
\* is lost only when its first character is group 2 of a match taken before it
RECURSIVE BreakTaken(_, _, _)
BreakTaken(s, starts, i) ==
    ~\E h \in starts : h < i /\ HyphenBreakAt(s, h) = i /\ BreakTaken(s, starts, h)

\* HARD_HYPHEN_BREAK_RE.sub(r"\1\2", s)
JoinHyphenBreaks(s) ==
    Let({i \in 1..Len(s) : HyphenBreakAt(s, i) > 0}, LAMBDA starts :
        Let(UNION {(i + 1)..(HyphenBreakAt(s, i) - 1) :
                      i \in {h \in starts : BreakTaken(s, starts, h)}},
            LAMBDA gone :
                Cat([k \in 1..Len(s) |-> IF k \in gone THEN "" ELSE Chr(s, k)], 1, Len(s))))

\* LINE_BREAK_RE.sub("\n", s)
CollapseNewlines(s) == CollapseRuns(s, {"\n"}, "\n")

\* the position of the first character of cs in s (Len(s) + 1 when there is none)
FindIn(s, cs) == SkipIn(s, 1, CharsOf(s) \ cs)

\* s.splitlines(), the line separators of the alphabet being \n and \r
RECURSIVE SplitLines(_)
SplitLines(s) ==
    IF s = "" THEN <<>>
    ELSE Let(FindIn(s, {"\n", "\r"}), LAMBDA e :
             \* "\r\n" is one line break
             <<SubSeq(s, 1, e - 1)>> \o
             SplitLines(From(s, IF e + 1 <= Len(s) /\ Chr(s, e) = "\r" /\ Chr(s, e + 1) = "\n"
                                THEN e + 2 ELSE e + 1)))

\* PAGE_FURNITURE_RE.match(line): ^\s*\d+\s*$
PAGE_FURNITURE(line) ==
    Let(Strip(line, SpaceSet), LAMBDA body :
        body /= "" /\ \A i \in 1..Len(body) : Chr(body, i) \in DigitSet)

IsFurnitureFree(line) == ~PAGE_FURNITURE(line)

\* norm(s); unicodedata.normalize("NFKC", s) leaves every character of the alphabet as it is
norm(s) ==
    Strip(CollapseWS(Join(SelectSeq(SplitLines(CollapseNewlines(ReplaceChar(
              JoinHyphenBreaks(RemoveChar(s, SOFT_HYPHEN)), "\r", "\n"))),
          IsFurnitureFree), "\n")), SpaceSet)

(***************************************************************************)
(* mine_handbook_1923_quotes.py: chapter detection                         *)
(***************************************************************************)

\* [IVXLC] under re.IGNORECASE
RomanSet == {"I", "V", "X", "L", "C", "i", "v", "x", "l", "c"}

\* CHAPTER_RE matched at i: \bCHAPTER\s+([IVXLC]+)\b, ignoring case; group 1, or ""
ChapterAt(s, i) ==
    IF WordBoundary(s, i) /\ i + 6 <= Len(s) /\ Lower(SubSeq(s, i, i + 6)) = "chapter"
    THEN Let(WsEnd(s, i + 7), LAMBDA w :
             Let(RunEnd(s, w + 1, RomanSet), LAMBDA e :
                 IF w >= i + 7 /\ e >= w + 1 /\ WordBoundary(s, e + 1)
                 THEN SubSeq(s, w + 1, e)
                 ELSE ""))
    ELSE ""

\* CHAPTER_RE.search(s): group 1 of the first match, or "" when there is none
CHAPTER_RE(s) ==
    Let({i \in 1..Len(s) : ChapterAt(s, i) /= ""}, LAMBDA hits :
        IF hits = {} THEN "" ELSE ChapterAt(s, Min(hits)))

UpperChar(c) ==
    IF c \in LowerSet
    THEN Chr(UpperAlpha, CHOOSE i \in 1..26 : Chr(LowerAlpha, i) = c)
    ELSE c

\* s.upper()
Upper(s) == Cat([i \in 1..Len(s) |-> UpperChar(Chr(s, i))], 1, Len(s))

RomanNumerals == <<"I", "II", "III", "IV", "V", "VI", "VII", "VIII", "IX", "X", "XI">>

\* ROMAN_TO_INT.get(roman, default)
ROMAN_TO_INT(roman, default) ==
    IF \E n \in 1..Len(RomanNumerals) : RomanNumerals[n] = roman
    THEN CHOOSE n \in 1..Len(RomanNumerals) : RomanNumerals[n] = roman
    ELSE default

\* CHAPTER_TO_DOCTRINE_DEFAULT.get(chapter)
CHAPTER_TO_DOCTRINE_DEFAULT(chapter) ==
    CASE chapter = 2 -> 1
      [] chapter = 3 -> 2
      [] chapter = 4 -> 4
      [] chapter = 5 -> 5
      [] chapter = 6 -> 6
      [] chapter = 7 -> 3
      [] chapter = 8 -> 7
      [] chapter = 9 -> 9
      [] chapter = 10 -> 10
      [] chapter = 11 -> 11
      [] OTHER -> None

(***************************************************************************)
(* mine_handbook_1923_quotes.py: doctrine scoring                          *)
(***************************************************************************)

KW_TRINITY == <<"trinity", "father", "son", "holy spirit", "three persons", "triune">>

KW_JUSTIFICATION == <<"justify", "justification", "righteousness imputed", "accounted righteous">>

KW_REGENERATION == <<"regenerat", "new birth", "born again">>

KW_REPENT_FAITH == <<"repent", "repentance", "faith", "believe", "conversion">>

KW_CONTINUANCE == <<"continue", "persever", "keep", "abide", "backslid", "apostasy", "endure">>

KW_SANCTIFICATION == <<"sanctif", "holiness", "entire sanctification", "perfect love">>

KW_ATONEMENT == <<"atonement", "redeem", "redemption", "propitiation", "reconcile", "sacrifice">>

KW_FALL == <<"fall", "deprav", "sinful", "guilty", "corrupt", "lost">>

KW_SCRIPTURE == <<"scripture", "bible", "inspiration", "revelation", "testament">>

KW_LAST_THINGS ==
    <<"resurrection", "judgment", "eternal", "immortal", "heaven", "hell", "second coming">>

BOOKS ==
    <<"Genesis", "Exodus", "Leviticus", "Numbers", "Deuteronomy", "Joshua", "Judges", "Ruth",
      "1 Samuel", "2 Samuel", "1 Kings", "2 Kings", "1 Chronicles", "2 Chronicles", "Ezra",
      "Nehemiah", "Esther", "Job", "Psalms", "Psalm", "Proverbs", "Ecclesiastes",
      "Song of Solomon", "Isaiah", "Jeremiah", "Lamentations", "Ezekiel", "Daniel",
      "Hosea", "Joel", "Amos", "Obadiah", "Jonah", "Micah", "Nahum", "Habakkuk", "Zephaniah",
      "Haggai", "Zechariah", "Malachi", "Matthew", "Mark", "Luke", "John", "Acts", "Romans",
      "1 Corinthians", "2 Corinthians", "Galatians", "Ephesians", "Philippians",
      "Colossians", "1 Thessalonians", "2 Thessalonians", "1 Timothy", "2 Timothy", "Titus",
      "Philemon", "Hebrews", "James", "1 Peter", "2 Peter", "1 John", "2 John", "3 John",
      "Jude", "Revelation">>

\* \b\d{1,3}:\d{1,3}\b matched at i
VerseRefAt(s, i) ==
    /\ WordBoundary(s, i)
    /\ \E a \in 1..3, b \in 1..3 :
          /\ i + a + b <= Len(s)
          /\ \A k \in i..(i + a - 1) : Chr(s, k) \in DigitSet
          /\ Chr(s, i + a) = ":"
          /\ \A k \in (i + a + 1)..(i + a + b) : Chr(s, k) \in DigitSet
          /\ WordBoundary(s, i + a + b + 1)

BooksLower == [n \in 1..Len(BOOKS) |-> Lower(BOOKS[n])]

\* one of BOOKS at i of the lowercased text t, with \b after it
BookNameAt(t, i) ==
    \E n \in 1..Len(BOOKS) :
        /\ StartsAt(t, i, BooksLower[n])
        /\ WordBoundary(t, i + Len(BOOKS[n]))

\* \b(?:[1-3]\s*)?(?:BOOKS)\b matched at i of the lowercased text t
BookRefAt(t, i) ==
    /\ WordBoundary(t, i)
    /\ \/ BookNameAt(t, i)
       \/ /\ i <= Len(t)
          /\ Chr(t, i) \in {"1", "2", "3"}
          /\ \E j \in (i + 1)..(WsEnd(t, i + 1) + 1) : BookNameAt(t, j)

\* SCRIPTUREISH_RE.search(s) is not None (re.IGNORECASE)
SCRIPTUREISH_RE(s) ==
    Let(Lower(s), LAMBDA t : \E i \in 1..Len(s) : VerseRefAt(s, i) \/ BookRefAt(t, i))

\* SENT_SPLIT_RE matched at i: (?<=[.!?])\s+(?=[A-Z"(]), the class holding the left curly
\* quote too; the end of the match, or 0
SentBreakAt(t, i) ==
    Let(WsEnd(t, i), LAMBDA e :
        IF /\ i >= 2
           /\ Chr(t, i - 1) \in {".", "!", "?"}
           /\ e >= i
           /\ e + 1 <= Len(t)
           /\ Chr(t, e + 1) \in UpperSet \cup {LDQUO, "\"", "("}
        THEN e ELSE 0)

\* the pieces of t from position i on, breaks being the starts of the matches
RECURSIVE SentPieces(_, _, _)
SentPieces(t, breaks, i) ==
    Let({b \in breaks : b >= i}, LAMBDA later :
        IF later = {} THEN <<From(t, i)>>
        ELSE <<SubSeq(t, i, Min(later) - 1)>>
             \o SentPieces(t, breaks, SentBreakAt(t, Min(later)) + 1))

\* SENT_SPLIT_RE.split(t)
SENT_SPLIT_RE(t) == SentPieces(t, {i \in 1..Len(t) : SentBreakAt(t, i) > 0}, 1)

\* contains_any(text, needles)
contains_any(text, needles) ==
    Let(Lower(text), LAMBDA t : \E n \in 1..Len(needles) : Contains(t, needles[n]))

\* doctrine_from_chapter_and_text(chapter, text)
doctrine_from_chapter_and_text(chapter, text) ==
    IF chapter = None THEN None
    ELSE IF CHAPTER_TO_DOCTRINE_DEFAULT(chapter) = None THEN None
    ELSE IF chapter = 3 /\ contains_any(text, KW_TRINITY) THEN 3
    ELSE IF chapter = 8
         THEN IF contains_any(text, KW_JUSTIFICATION) THEN 8 ELSE 7
    ELSE IF chapter = 9 /\ contains_any(text, KW_CONTINUANCE) THEN 9
    ELSE CHAPTER_TO_DOCTRINE_DEFAULT(chapter)

DefinitionalPhrases ==
    <<"we believe", "therefore", "means", "signifies", "is the", "are the", "must", "cannot">>

\* boosts.get(doctrine, [])
boosts(doctrine) ==
    CASE doctrine = 1 -> KW_SCRIPTURE
      [] doctrine = 2 -> <<"one god", "god", "creator", "sovereign", "holy">>
      [] doctrine = 3 -> KW_TRINITY
      [] doctrine = 4 -> <<"jesus", "christ", "incarn", "deity", "human", "god and man">>
      [] doctrine = 5 -> KW_FALL
      [] doctrine = 6 -> KW_ATONEMENT
      [] doctrine = 7 -> KW_REPENT_FAITH \o KW_REGENERATION
      [] doctrine = 8 -> KW_JUSTIFICATION
      [] doctrine = 9 -> KW_CONTINUANCE
      [] doctrine = 10 -> KW_SANCTIFICATION
      [] doctrine = 11 -> KW_LAST_THINGS
      [] OTHER -> <<>>

\* the score's terms, in hundredths
DefinitionalBonus == 180

KeywordBoost == 35

ScripturePenalty == 250

LengthPenalty == 60

ShortLen == 110

LongLen == 320

\* score_excerpt(doctrine, excerpt), in hundredths
score_excerpt(doctrine, excerpt) ==
    Let(Lower(excerpt), LAMBDA t :
        (IF \E n \in 1..Len(DefinitionalPhrases) : Contains(t, DefinitionalPhrases[n])
         THEN DefinitionalBonus ELSE 0)
        + KeywordBoost
          * Cardinality({n \in 1..Len(boosts(doctrine)) : Contains(t, boosts(doctrine)[n])})
        - (IF SCRIPTUREISH_RE(excerpt) THEN ScripturePenalty ELSE 0)
        - (IF Len(excerpt) < ShortLen THEN LengthPenalty ELSE 0)
        - (IF Len(excerpt) > LongLen THEN LengthPenalty ELSE 0))

(***************************************************************************)
(* mine_handbook_1923_quotes.py: candidate building                        *)
(*                                                                         *)
(* A Candidate is [doctrine, text, page, chapter, score]; its other fields *)
(* (doctrine_label, author, source_title, source_year, source_file) are    *)
(* functions of these and of the run's constants.                          *)
(***************************************************************************)

\* the score below which extract_candidates_from_page drops a window, in hundredths
ScoreThreshold == 180

\* the inner loop with the windows that reach the last sentence left out
RECURSIVE WindowsAtShort(_, _, _, _)
WindowsAtShort(sentences, i, w, max_sents) ==
    IF w > max_sents THEN <<>>
    ELSE IF i + w >= Len(sentences) THEN <<>>
    ELSE <<Strip(Join(SubSeq(sentences, i + 1, i + w), " "), SpaceSet)>>
         \o WindowsAtShort(sentences, i, w + 1, max_sents)

\* the inner loop of windows_from_sentences for start i (0-based) and widths w..max_sents
RECURSIVE WindowsAt(_, _, _, _)
WindowsAt(sentences, i, w, max_sents) ==
    IF w > max_sents THEN <<>>
    ELSE IF i + w > Len(sentences) THEN <<>>
    ELSE Let(Strip(Join(SubSeq(sentences, i + 1, i + w), " "), SpaceSet), LAMBDA chunk :
             (IF chunk = "" THEN <<>> ELSE <<chunk>>)
             \o WindowsAt(sentences, i, w + 1, max_sents))

\* the outer loop of windows_from_sentences from start i (0-based)
RECURSIVE WindowsFrom(_, _, _)
WindowsFrom(sentences, i, max_sents) ==
    IF i >= Len(sentences) THEN <<>>
    ELSE WindowsAt(sentences, i, 1, max_sents) \o WindowsFrom(sentences, i + 1, max_sents)

windows_from_sentences(sentences, max_sents) == WindowsFrom(sentences, 0, max_sents)

NonEmpty(s) == s /= ""

\* ex.strip().strip(" -" and the en and em dash)
TrimExcerpt(ex) == Strip(Strip(ex, SpaceSet), {" ", "-", EN_DASH, EM_DASH})

\* a length filter that has lost its upper limit
LengthOkNoMax(n, min_len, max_len) == min_len <= n

\* whether a window of the given length passes the length filter
LengthOk(n, min_len, max_len) == min_len <= n /\ n <= max_len

\* a score filter that asks for a positive score only
ScoreOkPositive(sc) == sc > 0

\* whether a window with score sc passes the score filter (the complement of sc < 1.8)
ScoreOk(sc) == ~(sc < ScoreThreshold)

\* the body of the loop of extract_candidates_from_page for one window
CandidatesOfWindow(window, page_number, chapter, min_len, max_len) ==
    Let(TrimExcerpt(window), LAMBDA ex :
        IF ~LengthOk(Len(ex), min_len, max_len) THEN <<>>
        ELSE Let(doctrine_from_chapter_and_text(chapter, ex), LAMBDA d :
                 IF d = None THEN <<>>
                 ELSE Let(score_excerpt(d, ex), LAMBDA sc :
                          IF ~ScoreOk(sc) THEN <<>>
                          ELSE <<[doctrine |-> d, text |-> ex, page |-> page_number,
                                  chapter |-> chapter, score |-> sc]>>)))

RECURSIVE CandidatesOfWindows(_, _, _, _, _)
CandidatesOfWindows(windows, page_number, chapter, min_len, max_len) ==
    IF windows = <<>> THEN <<>>
    ELSE CandidatesOfWindow(Head(windows), page_number, chapter, min_len, max_len)
         \o CandidatesOfWindows(Tail(windows), page_number, chapter, min_len, max_len)

\* extract_candidates_from_page(page_text, page_number, chapter, ..., min_len, max_len, max_sents)
extract_candidates_from_page(page_text, page_number, chapter, min_len, max_len, max_sents) ==
    Let(norm(page_text), LAMBDA t :
        IF t = "" THEN <<>>
        ELSE Let(SENT_SPLIT_RE(t), LAMBDA parts :
                 CandidatesOfWindows(
                     windows_from_sentences(
                         SelectSeq([n \in 1..Len(parts) |-> Strip(parts[n], SpaceSet)], NonEmpty),
                         max_sents),
                     page_number, chapter, min_len, max_len)))

(***************************************************************************)
(* mine_handbook_1923_quotes.py: dedupe and select_balanced                *)
(***************************************************************************)

AlnumLower == LowerSet \cup DigitSet

\* re.sub(r"[^a-z0-9]+", " ", s)
CollapseNonAlnum(s) == CollapseRuns(s, CharsOf(s) \ AlnumLower, " ")

\* the key computed in dedupe
DedupeKey(text) == CollapseWS(Strip(CollapseNonAlnum(Lower(text)), SpaceSet))

\* a sort key that has lost the page: -x.score alone
RankBeforeByScore(a, b) == a.score > b.score

\* the sort key (-x.score, x.page) of a before that of b
RankBefore(a, b) == a.score > b.score \/ (a.score = b.score /\ a.page < b.page)

\* one step of the stable sort: c goes after every element that does not rank after it
RECURSIVE InsertRanked(_, _)
InsertRanked(sorted, c) ==
    IF sorted = <<>> THEN <<c>>
    ELSE IF RankBefore(c, Head(sorted))
         THEN <<c>> \o sorted
         ELSE <<Head(sorted)>> \o InsertRanked(Tail(sorted), c)

\* sorted(cands, key=lambda x: (-x.score, x.page)), a stable sort
RECURSIVE SortRanked(_)
SortRanked(cands) ==
    IF cands = <<>> THEN <<>>
    ELSE InsertRanked(SortRanked(SubSeq(cands, 1, Len(cands) - 1)), cands[Len(cands)])

\* a dedupe loop that never records the key of the candidate it keeps
RECURSIVE DedupeLoopNoSeen(_, _)
DedupeLoopNoSeen(sorted, seen) ==
    IF sorted = <<>> THEN <<>>
    ELSE IF DedupeKey(Head(sorted).text) \in seen
         THEN DedupeLoopNoSeen(Tail(sorted), seen)
         ELSE <<Head(sorted)>> \o DedupeLoopNoSeen(Tail(sorted), seen)

\* the loop of dedupe over the sorted candidates, seen being the keys met so far
RECURSIVE DedupeLoop(_, _)
DedupeLoop(sorted, seen) ==
    IF sorted = <<>> THEN <<>>
    ELSE Let(DedupeKey(Head(sorted).text), LAMBDA key :
             IF key \in seen
             THEN DedupeLoop(Tail(sorted), seen)
             ELSE <<Head(sorted)>> \o DedupeLoop(Tail(sorted), seen \cup {key}))

\* dedupe(cands)
dedupe(cands) == DedupeLoop(SortRanked(cands), {})

\* the 11 doctrines of select_balanced: range(1, 12)
NumDoctrines == 11

Doctrines == 1..NumDoctrines

\* buckets[d] before sorting: the candidates of doctrine d, in input order
BucketOf(cands, d) == LET IsD(c) == c.doctrine = d IN SelectSeq(cands, IsD)

\* buckets after the sort of each
buckets(cands) == [d \in Doctrines |-> SortRanked(BucketOf(cands, d))]

\* a slice that is one element too long: seq[:n + 1]
PrefixPlusOne(seq, n) == SubSeq(seq, 1, IF n + 1 < Len(seq) THEN n + 1 ELSE Len(seq))

\* buckets[d][:base]
Prefix(seq, n) == SubSeq(seq, 1, IF n < Len(seq) THEN n ELSE Len(seq))

\* a first pass that stops one doctrine early: range(1, 11)
RECURSIVE FirstPassShort(_, _, _)
FirstPassShort(bk, base, from) ==
    IF from > NumDoctrines - 1 THEN <<>>
    ELSE SubSeq(bk[from], 1, IF base < Len(bk[from]) THEN base ELSE Len(bk[from]))
         \o FirstPassShort(bk, base, from + 1)

\* first pass: selected.extend(buckets[d][:base]) for d = from..11
RECURSIVE FirstPass(_, _, _)
FirstPass(bk, base, from) ==
    IF from > NumDoctrines THEN <<>>
    ELSE Prefix(bk[from], base) \o FirstPass(bk, base, from + 1)

\* a scan whose comparison is turned round: c.score < best_c.score
BetterNextLower(c, best_c) == c.score < best_c.score

\* whether candidate c replaces best_c in the scan of the second pass
BetterNext(c, best_c) == c.score > best_c.score

\* the scan for d = from..11 of the second pass; best_d = 0 stands for None
RECURSIVE BestDoctrine(_, _, _, _)
BestDoctrine(bk, pointers, from, best_d) ==
    IF from > NumDoctrines THEN best_d
    ELSE LET idx == pointers[from]
             take == /\ idx < Len(bk[from])
                     /\ \/ best_d = None
                        \/ BetterNext(bk[from][idx + 1], bk[best_d][pointers[best_d] + 1])
         IN  BestDoctrine(bk, pointers, from + 1, IF take THEN from ELSE best_d)

\* a second pass that stops one record early: while len(selected) < total - 1
RECURSIVE SecondPassEarly(_, _, _, _)
SecondPassEarly(bk, pointers, selected, total) ==
    IF ~(Len(selected) < total - 1) THEN selected
    ELSE IF BestDoctrine(bk, pointers, 1, None) = None THEN selected
    ELSE SecondPassEarly(
             bk,
             [pointers EXCEPT ![BestDoctrine(bk, pointers, 1, None)] = @ + 1],
             Append(selected,
                    bk[BestDoctrine(bk, pointers, 1, None)]
                      [pointers[BestDoctrine(bk, pointers, 1, None)] + 1]),
             total)

\* second pass: while len(selected) < total
RECURSIVE SecondPass(_, _, _, _)
SecondPass(bk, pointers, selected, total) ==
    IF ~(Len(selected) < total) THEN selected
    ELSE Let(BestDoctrine(bk, pointers, 1, None), LAMBDA best_d :
             IF best_d = None THEN selected
             ELSE SecondPass(bk, [pointers EXCEPT ![best_d] = @ + 1],
                             Append(selected, bk[best_d][pointers[best_d] + 1]), total))

\* selected[:total] of Python, total >= 0
Truncate(selected, total) == Prefix(selected, total)

\* a selection whose second pass starts at the head of every bucket: pointers[d] = 0
SelectFromHeads(cands, total) ==
    Let(buckets(cands), LAMBDA bk :
        Truncate(SecondPass(bk, [d \in Doctrines |-> 0],
                            FirstPass(bk, total \div NumDoctrines, 1), total), total))

\* select_balanced(cands, total), total >= 0
select_balanced(cands, total) ==
    Let(buckets(cands), LAMBDA bk :
        LET base == total \div NumDoctrines
            pointers == [d \in Doctrines |-> base]
        IN  Truncate(SecondPass(bk, pointers, FirstPass(bk, base, 1), total), total))

(***************************************************************************)
(* clean_handbook_1923_quotes.py: text cleaning                            *)
(***************************************************************************)

\* the start of the run of characters of cs that ends at i (i + 1 when there is none)
RunStart(s, i, cs) == SkipBack(SubSeq(s, 1, i), cs) + 1

\* re.sub(r"\s*<not sign>\s*", "", s): every marker goes, with the whitespace next to it
RemoveJoinMarkers(s) ==
    Cat([k \in 1..Len(s) |->
            IF Chr(s, k) = NOT_SIGN THEN ""
            ELSE IF /\ Chr(s, k) \in SpaceSet
                    /\ \/ WsEnd(s, k) + 1 <= Len(s) /\ Chr(s, WsEnd(s, k) + 1) = NOT_SIGN
                       \/ RunStart(s, k, SpaceSet) >= 2
                          /\ Chr(s, RunStart(s, k, SpaceSet) - 1) = NOT_SIGN
                 THEN ""
                 ELSE Chr(s, k)],
        1, Len(s))

\* the replace calls taken one quote at a time: an opening quote becomes a closing one
StraightenQuotesInTurn(s) ==
    ReplaceChar(ReplaceChar(ReplaceChar(s, RDQUO, "\""), LDQUO, RDQUO), RSQUO, "'")

\* the four replace calls that turn curly quotes into straight ones
StraightenQuotes(s) ==
    ReplaceChar(ReplaceChar(ReplaceChar(ReplaceChar(s, LDQUO, "\""), RDQUO, "\""), RSQUO, "'"),
                LSQUO, "'")

\* normalize_text(s); its last re.sub replaces every match by itself
normalize_text(s) ==
    Strip(CollapseWS(StraightenQuotes(RemoveJoinMarkers(RemoveChar(s, SOFT_HYPHEN)))), SpaceSet)

\* WE_BELIEVE_RE matched at i: \b(?:We believe that|We believe in|We believe)\b, ignoring case
WeBelieveAt(s, i) ==
    /\ WordBoundary(s, i)
    /\ i + 9 <= Len(s)
    /\ Lower(SubSeq(s, i, i + 9)) = "we believe"
    /\ WordBoundary(s, i + 10)

\* the starts of WE_BELIEVE_RE.finditer(s), as a set
WE_BELIEVE_RE(s) == {i \in 1..Len(s) : WeBelieveAt(s, i)}

\* the longest note PAREN_NOTE_RE takes: [^)]{0,80}
ParenNoteMax == 80

\* PAREN_NOTE_RE matched at i: \(\s*see\s+[^)]{0,80}\), ignoring case; its end, or 0
ParenNoteAt(s, i) ==
    IF i <= Len(s) /\ Chr(s, i) = "("
    THEN Let(WsEnd(s, i + 1) + 1, LAMBDA a :
             Let(WsEnd(s, a + 3), LAMBDA w :
                 Let(SkipIn(s, w + 1, CharsOf(s) \ {")"}), LAMBDA r :
                     IF /\ a + 2 <= Len(s)
                        /\ Lower(SubSeq(s, a, a + 2)) = "see"
                        /\ w >= a + 3
                        /\ r <= Len(s)
                        /\ r - (w + 1) <= ParenNoteMax
                     THEN r ELSE 0)))
    ELSE 0

\* the positions PAREN_NOTE_RE.sub("", s) removes, scanning from position from
RECURSIVE ParenNoteSpans(_, _, _)
ParenNoteSpans(s, starts, from) ==
    Let({i \in starts : i >= from}, LAMBDA later :
        IF later = {} THEN {}
        ELSE Let(Min(later), LAMBDA i :
                 (i..ParenNoteAt(s, i)) \cup ParenNoteSpans(s, starts, ParenNoteAt(s, i) + 1)))

\* PAREN_NOTE_RE.sub("", s)
PAREN_NOTE_RE(s) ==
    Let(ParenNoteSpans(s, {i \in 1..Len(s) : ParenNoteAt(s, i) > 0}, 1), LAMBDA gone :
        Cat([k \in 1..Len(s) |-> IF k \in gone THEN "" ELSE Chr(s, k)], 1, Len(s)))

\* the hyphen, the em dash and the en dash
DashSet == {EM_DASH, "-", EN_DASH}

\* \s*\.?\s*[dash] matched at i: the position after the dash, or 0
DotDashAt(s, i) ==
    Let(WsEnd(s, i) + 1, LAMBDA a :
        Let(IF a <= Len(s) /\ Chr(s, a) = "." THEN WsEnd(s, a + 1) + 1 ELSE a, LAMBDA b :
            IF b <= Len(s) /\ Chr(s, b) \in DashSet THEN b + 1 ELSE 0))

\* \s*.*?\s+ matched at p: the end of the match, or -1.  The lazy .*? stops at the first
\* whitespace after the run at p; with none left, \s* gives the run at p back to \s+
LazyToSpaceAt(s, p) ==
    Let(WsEnd(s, p), LAMBDA w :
        Let(SkipIn(s, w + 1, CharsOf(s) \ SpaceSet), LAMBDA nxt :
            IF nxt <= Len(s) THEN WsEnd(s, nxt)
            ELSE IF w >= p THEN w
            ELSE -1))

\* "Sec." or "Section" at i, ignoring case: the position after it, or 0
SectionWordAt(s, i) ==
    IF Lower(Slice(s, i, i + 3)) = "sec." THEN i + 4
    ELSE IF Lower(Slice(s, i, i + 6)) = "section" THEN i + 7
    ELSE 0

\* [IVXLC]+\s*\.?\s*[dash]\s*.*?\s+ matched at i: the end of the match, or -1
NumeralHeadingAt(s, i) ==
    Let(RunEnd(s, i, RomanSet), LAMBDA e :
        Let(DotDashAt(s, e + 1), LAMBDA p :
            IF e >= i /\ p > 0 THEN LazyToSpaceAt(s, p) ELSE -1))

\* (?:Sec\.|Section)\s+ ending before a, then the numeral heading: the end, or -1
SectionHeadingAt(s, a) ==
    IF a > 0 /\ WsEnd(s, a) >= a THEN NumeralHeadingAt(s, WsEnd(s, a) + 1) ELSE -1

\* [IVXLC]+\.\s* matched at the start of s: the end of the match, or -1
NumeralDotAt(s, e) ==
    IF e >= 1 /\ e + 1 <= Len(s) /\ Chr(s, e + 1) = "." THEN WsEnd(s, e + 2) ELSE -1

\* the first of the three alternatives that matches, as the regex engine tries them
FirstMatch(first, second, third) ==
    IF first >= 0 THEN first
    ELSE IF second >= 0 THEN second
    ELSE IF third >= 0 THEN third
    ELSE 0

\* the end of the match of LEADING_JUNK_RE at the start of s (0 for the empty match)
LeadingJunkEnd(s) ==
    FirstMatch(SectionHeadingAt(s, SectionWordAt(s, 1)), NumeralHeadingAt(s, 1),
               NumeralDotAt(s, RunEnd(s, 1, RomanSet)))

\* LEADING_JUNK_RE.sub("", s)
LEADING_JUNK_RE(s) == From(s, LeadingJunkEnd(s) + 1)

\* how often strip_boilerplate tries to remove a leading heading: range(5)
LeadingRounds == 5

\* the loop that removes leading headings, n rounds being left
RECURSIVE StripLeading(_, _)
StripLeading(s, n) ==
    IF n = 0 THEN s
    ELSE Let(Strip(LEADING_JUNK_RE(s), SpaceSet), LAMBDA new :
             IF new = s THEN s ELSE StripLeading(new, n - 1))

\* .*?$ and .*$ matched at p: no line break up to the end, but for a last "\n", which
\* the match leaves and the strip() after the sub removes
RestOfLineAt(s, p) == ~Contains(SubSeq(s, p, Len(s) - 1), "\n")

\* \s+(?:Section|Sec\.)\s+[IVXLC]+\s*\.?\s*[dash].*$ matched at i
SectionTailAt(s, i) ==
    Let(WsEnd(s, i), LAMBDA w :
        w >= i /\ Let(SectionWordAt(s, w + 1), LAMBDA a :
            a > 0 /\ Let(WsEnd(s, a), LAMBDA v :
                v >= a /\ Let(RunEnd(s, v + 1, RomanSet), LAMBDA e :
                    e >= v + 1 /\ Let(DotDashAt(s, e + 1), LAMBDA p :
                        p > 0 /\ RestOfLineAt(s, p))))))

\* \s+Section\s+\w+\s*\.?\s*[dash].*?$ matched at i
SectionWordTailAt(s, i) ==
    Let(WsEnd(s, i), LAMBDA w :
        /\ w >= i
        /\ Lower(Slice(s, w + 1, w + 7)) = "section"
        /\ Let(WsEnd(s, w + 8), LAMBDA v :
               v >= w + 8 /\ Let(RunEnd(s, v + 1, WordSet), LAMBDA e :
                   e >= v + 1 /\ Let(DotDashAt(s, e + 1), LAMBDA p :
                       p > 0 /\ RestOfLineAt(s, p)))))

\* \s+\d+\.\s*$ matched at i
NumberTailAt(s, i) ==
    Let(WsEnd(s, i), LAMBDA w :
        w >= i /\ Let(RunEnd(s, w + 1, DigitSet), LAMBDA e :
            /\ e >= w + 1
            /\ e + 1 <= Len(s) /\ Chr(s, e + 1) = "."
            /\ WsEnd(s, e + 2) = Len(s)))

\* s with everything from the first position where At holds removed
CutAtFirst(s, At(_, _)) ==
    Let({i \in 1..Len(s) : At(s, i)}, LAMBDA hits :
        IF hits = {} THEN s ELSE SubSeq(s, 1, Min(hits) - 1))

TrailingJunkAt(s, i) == SectionTailAt(s, i) \/ SectionWordTailAt(s, i) \/ NumberTailAt(s, i)

\* TRAILING_JUNK_RE.sub("", s): each alternative runs to the end of s
TRAILING_JUNK_RE(s) == CutAtFirst(s, TrailingJunkAt)

OPEN_QUOTES == {LDQUO, "\"", LSQUO, "'"}

CLOSE_QUOTES == {RDQUO, "\"", RSQUO, "'"}

\* s[1:].lstrip() when s starts with an opening quote
TrimOpenQuote(s) ==
    IF s /= "" /\ Chr(s, 1) \in OPEN_QUOTES THEN LStrip(From(s, 2), SpaceSet) ELSE s

\* s[:-1].rstrip() when s ends with a closing quote
TrimCloseQuote(s) ==
    IF s /= "" /\ Chr(s, Len(s)) \in CLOSE_QUOTES
    THEN RStrip(SubSeq(s, 1, Len(s) - 1), SpaceSet)
    ELSE s

\* the trimming of one leading and one trailing quote
TrimQuotes(s) == TrimCloseQuote(TrimOpenQuote(s))

\* no cut at the anchor: the text before it stays
KeepBeforeAnchor(s) == s

\* s[m.start():].strip() for the first match m of WE_BELIEVE_RE, s when there is none
FromFirstAnchor(s) ==
    Let(WE_BELIEVE_RE(s), LAMBDA m : IF m /= {} THEN Strip(From(s, Min(m)), SpaceSet) ELSE s)

\* strip_boilerplate(s): the steps of the function, the first innermost
strip_boilerplate(s) ==
    normalize_text(
      TrimQuotes(
        Strip(CutAtFirst(
          Strip(TRAILING_JUNK_RE(
            StripLeading(
              PAREN_NOTE_RE(
                FromFirstAnchor(
                  normalize_text(s))),
              LeadingRounds)), SpaceSet),
          SectionTailAt), SpaceSet)))

\* the loop of split_we_believe_blocks over the sorted starts of the matches
RECURSIVE WeBelieveChunks(_, _)
WeBelieveChunks(s, starts) ==
    IF starts = {} THEN <<>>
    ELSE LET start == Min(starts)
             rest == starts \ {start}
             end == IF rest /= {} THEN Min(rest) - 1 ELSE Len(s)
         IN  Let(strip_boilerplate(Strip(SubSeq(s, start, end),
                                         {" ", ";", ":", "-", EN_DASH, EM_DASH})),
                 LAMBDA chunk :
                     (IF chunk /= "" THEN <<chunk>> ELSE <<>>) \o WeBelieveChunks(s, rest))

\* split_we_believe_blocks(s)
split_we_believe_blocks(s) ==
    Let(strip_boilerplate(s), LAMBDA t :
        Let(WE_BELIEVE_RE(t), LAMBDA matches :
            IF Cardinality(matches) <= 1
            THEN (IF t /= "" THEN <<t>> ELSE <<>>)
            ELSE WeBelieveChunks(t, matches)))

\* re.sub(r"[^a-z0-9 ]+", " ", s)
CollapseNonKey(s) == CollapseRuns(s, CharsOf(s) \ (AlnumLower \cup {" "}), " ")

\* make_key(s)
make_key(s) == Strip(CollapseWS(CollapseNonKey(Lower(normalize_text(s)))), SpaceSet)

(***************************************************************************)
(* clean_handbook_1923_quotes.py: main                                     *)
(*                                                                         *)
(* An input item is [text, score, page]; page = None stands for an item    *)
(* whose page is missing or falsy.  A CleanRecord is [text, score, page]:  *)
(* author, doctrine, doctrine_label and the rest of source pass through.   *)
(***************************************************************************)

\* chunks of one item: strip_boilerplate alone under --no-split-we-believe
ChunksOf(raw_text, no_split_we_believe) ==
    IF no_split_we_believe THEN <<strip_boilerplate(raw_text)>>
    ELSE split_we_believe_blocks(raw_text)

\* whether a chunk of length n passes the length filter of main
ChunkLengthOk(n, min_len, max_len) == min_len <= n /\ n <= max_len

\* the loop of main over the chunks of one item: the records it appends to produced
RECURSIVE ProducedOfChunks(_, _, _, _)
ProducedOfChunks(chunks, item, min_len, max_len) ==
    IF chunks = <<>> THEN <<>>
    ELSE Let(strip_boilerplate(Head(chunks)), LAMBDA ch :
             (IF ch = "" THEN <<>>
              ELSE IF ~ChunkLengthOk(Len(ch), min_len, max_len) THEN <<>>
              ELSE <<[text |-> ch, score |-> item.score, page |-> item.page]>>)
             \o ProducedOfChunks(Tail(chunks), item, min_len, max_len))

\* the loop of main over the input items: produced
RECURSIVE Produce(_, _, _, _)
Produce(items, min_len, max_len, no_split_we_believe) ==
    IF items = <<>> THEN <<>>
    ELSE ProducedOfChunks(ChunksOf(Head(items).text, no_split_we_believe), Head(items),
                          min_len, max_len)
         \o Produce(Tail(items), min_len, max_len, no_split_we_believe)

\* 10**9, the page of a record that has none
NoPageRank == 1000000000

\* int(rec.source.get("page") or 10**9)
PageRank(rec) == IF rec.page = None THEN NoPageRank ELSE rec.page

\* a comparison that has lost the page: rec.score > keep.score
ReplacesKeptByScore(rec, keep) == rec.score > keep.score

\* (rec.score, -rec_page) > (keep.score, -keep_page)
ReplacesKept(rec, keep) ==
    rec.score > keep.score \/ (rec.score = keep.score /\ PageRank(rec) < PageRank(keep))

\* the dedupe loop of main: best_by_key as a sequence of [key, rec] in insertion order
RECURSIVE BestByKey(_, _)
BestByKey(produced, best) ==
    IF produced = <<>> THEN best
    ELSE Let(Head(produced), LAMBDA rec :
         Let(make_key(rec.text), LAMBDA key :
         Let({n \in 1..Len(best) : best[n].key = key}, LAMBDA at :
             IF key = "" THEN BestByKey(Tail(produced), best)
             ELSE IF at = {} THEN BestByKey(Tail(produced), Append(best, [key |-> key, rec |-> rec]))
             ELSE IF ReplacesKept(rec, best[Min(at)].rec)
                  THEN BestByKey(Tail(produced), [best EXCEPT ![Min(at)].rec = rec])
                  ELSE BestByKey(Tail(produced), best))))

\* the sort key (-r.score, page or 10**9) of a before that of b
CleanRankBefore(a, b) == a.score > b.score \/ (a.score = b.score /\ PageRank(a) < PageRank(b))

RECURSIVE InsertClean(_, _)
InsertClean(sorted, c) ==
    IF sorted = <<>> THEN <<c>>
    ELSE IF CleanRankBefore(c, Head(sorted))
         THEN <<c>> \o sorted
         ELSE <<Head(sorted)>> \o InsertClean(Tail(sorted), c)

\* cleaned.sort(key=...), a stable sort
RECURSIVE SortClean(_)
SortClean(recs) ==
    IF recs = <<>> THEN <<>>
    ELSE InsertClean(SortClean(SubSeq(recs, 1, Len(recs) - 1)), recs[Len(recs)])

\* cleaned: list(best_by_key.values()), sorted
Cleaned(produced) ==
    Let(BestByKey(produced, <<>>), LAMBDA best : SortClean([n \in 1..Len(best) |-> best[n].rec]))

(***************************************************************************)
(* review_handbook_quotes.py                                               *)
(***************************************************************************)

\* "HANDBOOK OF DOCTRINE", "THE BIBLE", "[chap", "chap."
OCR_HEADER_MARKERS == <<"HANDBOOK OF DOCTRINE", "THE BIBLE", "[chap", "chap.">>

\* "Sec.", "Section" and the numerals I to XI followed by "." and the em dash
STRUCTURE_MARKERS ==
    <<"Sec.", "Section">>
    \o [n \in 1..Len(RomanNumerals) |-> RomanNumerals[n] \o "." \o EM_DASH]

POLEMIC_TERMS ==
    <<"impostor", "self-deceived", "wrath of god", "everlasting punishment", "wicked">>

SENSITIVE_GROUP_TERMS == <<"jewish", "jews", "heathen", "infidel", "pagan", "mohammedan">>

NEEDS_CONTEXT_STARTS ==
    <<"according to this view", "however", "therefore", "thus", "but", "and", "or",
      "this means", "hence">>

GOOD_ANCHORS ==
    <<"we believe", "this means", "the word", "god is", "jesus christ", "the holy spirit">>

\* normalize(s)
normalize(s) ==
    Strip(CollapseWS(StraightenQuotes(RemoveJoinMarkers(RemoveChar(s, SOFT_HYPHEN)))), SpaceSet)

\* norm_key(s)
norm_key(s) == Strip(CollapseWS(CollapseNonKey(Lower(normalize(s)))), SpaceSet)

\* has_any(hay, needles)
has_any(hay, needles) ==
    Let(Lower(hay), LAMBDA h : \E n \in 1..Len(needles) : Contains(h, Lower(needles[n])))

\* the length under which is_incomplete calls a text a fragment
FragmentLen == 70

\* [i-vx] under re.IGNORECASE
DanglingSet == {c \in LowerSet \cup UpperSet : LowerChar(c) \in CharsOf("ijklmnopqrstuvx")}

\* the most letters DANGLING_END_RE takes before the full stop: {1,6}
DanglingMax == 6

\* DANGLING_END_RE.search(t): (?:\b[i-vx]{1,6}\.\s*$)|(?:\b\d+\.\s*$), ignoring case
DANGLING_END_RE(t) ==
    Let(SkipBack(t, SpaceSet), LAMBDA e :
        /\ e >= 2
        /\ Chr(t, e) = "."
        /\ Let(SubSeq(t, RunStart(t, e - 1, WordSet), e - 1), LAMBDA word :
               /\ word /= ""
               /\ \/ Len(word) <= DanglingMax /\ CharsOf(word) \subseteq DanglingSet
                  \/ CharsOf(word) \subseteq DigitSet))

\* re.search(r"[.!?][\"']?\s*$", t)
EndsSentence(t) ==
    Let(SkipBack(t, SpaceSet), LAMBDA e :
        /\ e >= 1
        /\ \/ Chr(t, e) \in {".", "!", "?"}
           \/ Chr(t, e) \in {"\"", "'"} /\ e >= 2 /\ Chr(t, e - 1) \in {".", "!", "?"})

\* is_incomplete(text)
is_incomplete(text) ==
    Let(normalize(text), LAMBDA t :
        IF t = "" THEN TRUE
        ELSE IF Len(t) < FragmentLen THEN TRUE
        ELSE IF ~EndsSentence(t) /\ Chr(t, Len(t)) /= ";" THEN TRUE
        ELSE DANGLING_END_RE(t))

\* SCRIPTURE_REF_RE matched at i: \b\d{1,3}:\d{1,3}\b; the end of the match, or 0
VerseRefEnd(s, i) ==
    IF VerseRefAt(s, i)
    THEN RunEnd(s, RunEnd(s, i, DigitSet) + 2, DigitSet)
    ELSE 0

\* the number of matches SCRIPTURE_REF_RE.findall finds from position from on
RECURSIVE CountVerseRefs(_, _, _)
CountVerseRefs(s, starts, from) ==
    Let({i \in starts : i >= from}, LAMBDA later :
        IF later = {} THEN 0
        ELSE 1 + CountVerseRefs(s, starts, VerseRefEnd(s, Min(later)) + 1))

\* scripture_density(text)
scripture_density(text) == CountVerseRefs(text, {i \in 1..Len(text) : VerseRefAt(text, i)}, 1)

\* starts_needing_context(text)
starts_needing_context(text) ==
    Let(Lower(normalize(text)), LAMBDA t :
        \E n \in 1..Len(NEEDS_CONTEXT_STARTS) : StartsAt(t, 1, NEEDS_CONTEXT_STARTS[n]))

Flag(cond, name) == IF cond THEN <<name>> ELSE <<>>

\* the flags classify gives an item with the given raw text
FlagsOf(raw) ==
    Let(normalize(raw), LAMBDA text :
    Let(scripture_density(text), LAMBDA dens :
        Flag(has_any(text, OCR_HEADER_MARKERS), "ocr_header")
        \o Flag(has_any(text, STRUCTURE_MARKERS), "structure_marker")
        \o Flag(Contains(raw, NOT_SIGN) \/ Contains(raw, SOFT_HYPHEN), "ocr_hyphen_artifact")
        \o Flag(is_incomplete(text), "incomplete_or_fragment")
        \o Flag(starts_needing_context(text), "needs_context_opening")
        \o Flag(has_any(text, POLEMIC_TERMS), "polemical_language")
        \o Flag(has_any(text, SENSITIVE_GROUP_TERMS), "sensitive_group_term")
        \o Flag(dens >= 2, "scripture_heavy")
        \o Flag(dens = 1, "scripture_present")
        \o Flag(has_any(text, GOOD_ANCHORS), "doctrinal_anchor")))

Has(flags, name) == \E n \in 1..Len(flags) : flags[n] = name

\* the flags that send an item to review
ReviewFlags ==
    {"polemical_language", "sensitive_group_term", "needs_context_opening", "ocr_header",
     "structure_marker"}

\* a decision that looks at the review flags before it looks at incompleteness
BucketFlagFirst(flags) ==
    IF \E f \in ReviewFlags : Has(flags, f) THEN "flag"
    ELSE IF Has(flags, "incomplete_or_fragment")
            /\ (Has(flags, "ocr_header") \/ Has(flags, "structure_marker"))
    THEN "drop"
    ELSE "safe"

\* the decision buckets of classify
Bucket(flags) ==
    IF Has(flags, "incomplete_or_fragment")
       /\ (Has(flags, "ocr_header") \/ Has(flags, "structure_marker"))
    THEN "drop"
    ELSE IF \E f \in ReviewFlags : Has(flags, f) THEN "flag"
    ELSE "safe"

\* classify(item): the bucket and the ReviewRow, [text, flags] with the fields passed through
classify(item) ==
    Let(FlagsOf(item.text), LAMBDA flags :
        [bucket |-> Bucket(flags),
         row |-> [text |-> normalize(item.text), flags |-> flags, score |-> item.score,
                  page |-> item.page]])

\* the loop with no continue after a repeat is counted: its row is put in a list too
RECURSIVE ReviewLoopKeepRepeats(_, _)
ReviewLoopKeepRepeats(items, st) ==
    IF items = <<>> THEN st
    ELSE Let(classify(Head(items)), LAMBDA c :
         Let(norm_key(c.row.text), LAMBDA k :
             ReviewLoopKeepRepeats(Tail(items),
                 [st EXCEPT !.seen = @ \cup {k},
                            !.dup_count = IF k \in st.seen THEN @ + 1 ELSE @,
                            !.safe = IF c.bucket = "safe" THEN Append(@, c.row) ELSE @,
                            !.flagged = IF c.bucket = "flag" THEN Append(@, c.row) ELSE @,
                            !.dropped = IF c.bucket \notin {"safe", "flag"}
                                        THEN Append(@, c.row) ELSE @])))

\* the loop of main over the input items, from the state st of
\* [safe, flagged, dropped, seen, dup_count]
RECURSIVE ReviewLoop(_, _)
ReviewLoop(items, st) ==
    IF items = <<>> THEN st
    ELSE Let(classify(Head(items)), LAMBDA c :
         Let(norm_key(c.row.text), LAMBDA k :
             IF k \in st.seen
             THEN ReviewLoop(Tail(items), [st EXCEPT !.dup_count = @ + 1])
             ELSE ReviewLoop(Tail(items),
                     [st EXCEPT !.seen = @ \cup {k},
                                !.safe = IF c.bucket = "safe" THEN Append(@, c.row) ELSE @,
                                !.flagged = IF c.bucket = "flag" THEN Append(@, c.row) ELSE @,
                                !.dropped = IF c.bucket \notin {"safe", "flag"}
                                            THEN Append(@, c.row) ELSE @])))

\* main of the review script: the lists it writes and its duplicate count
Review(items) ==
    ReviewLoop(items, [safe |-> <<>>, flagged |-> <<>>, dropped |-> <<>>, seen |-> {},
                       dup_count |-> 0])

(***************************************************************************)
(* The scripts as state machines.  A run of a script is a few steps over   *)
(* the variables below; script says which program the run is of:           *)
(*   "miner"   main of mine_handbook_1923_quotes.py, page by page          *)
(*   "select"  select_balanced applied to a list of candidates             *)
(*   "dedupe"  dedupe of the miner applied to a list of candidates         *)
(*   "cleaner" main of clean_handbook_1923_quotes.py                       *)
(*   "review"  main of review_handbook_quotes.py                           *)
(***************************************************************************)

VARIABLES
    script,           \* the program that runs
    pc,               \* "input", "pages" or "done"
    args,             \* the parsed command line (argparse namespace)
    data,             \* the list read from the input file (of the miner: the pages read
                      \* so far), or handed to the function
    pageno,           \* miner: pageno of the page loop
    raw,              \* miner: the page text of the current round of the page loop
    current_chapter,  \* miner: current_chapter
    all_cands,        \* miner: all_cands
    selected,         \* miner: selected
    produced,         \* cleaner: produced
    cleaned,          \* cleaner: cleaned
    safe,             \* review: safe
    flagged,          \* review: flagged
    dropped,          \* review: dropped
    dup_count,        \* review: dup_count
    kept_before,      \* the list an earlier run on the same records kept, if there was one
    result,           \* what the functions applied to data returned, one entry per application
    env,              \* the world outside the run: what the network answers
    net,              \* the requests made over the network so far, in order
    outfile,          \* the output file: <<>> while not written, <<payload>> once written
    nth,              \* the number of rounds the current loop has finished
    all_quotes,       \* collector of official pages: all_quotes
    urls,             \* collector of archive texts: urls
    all_hits,         \* collector of archive texts: all_hits
    last_doctrine,    \* miner of both handbooks: last_doctrine
    last_chapter_roman, \* miner of both handbooks: last_chapter_roman
    all_candidates    \* miner of both handbooks: all_candidates

vars == <<script, pc, args, data, pageno, raw, current_chapter, all_cands, selected,
          produced, cleaned, safe, flagged, dropped, dup_count, kept_before, result,
          env, net, outfile, nth, all_quotes, urls, all_hits, last_doctrine,
          last_chapter_roman, all_candidates>>

minerVars == <<pageno, raw, current_chapter, all_cands, selected>>
cleanerVars == <<produced, cleaned>>
reviewVars == <<safe, flagged, dropped, dup_count>>
ioVars == <<env, net, outfile>>
collectVars == <<nth, all_quotes>>

wideVars == <<urls, all_hits>>
handbookVars == <<last_doctrine, last_chapter_roman, all_candidates>>

\* the variables of the scripts of the second group
laterVars == <<ioVars, collectVars, wideVars, handbookVars>>

\* ---- bounds ----

\* the most pages a modelled PDF has
MaxPages == 2

\* the longest input list handed to dedupe, to the cleaner and to the review
MaxItems == 2

\* the most candidates of the doctrines 1 and 11 (and of no doctrine) in an input of
\* select_balanced, and the most candidates each other doctrine has
MaxAdd == 3
MaxFill == 2

\* the largest --target / total
MaxTotal == 23

\* all sequences over S of length at most n
SeqsUpTo(S, n) == UNION {[1..k -> S] : k \in 0..n}

\* ---- inputs of the miner ----

\* the sentence of 90 characters about the Scriptures and revelation
BibleSentence ==
    "We believe that the Scriptures of the Old and New covenants contain the divine revelation."

ReferenceSentence == "See Romans 8:1 for details."

PageBible == "CHAPTER II\nThe Bible.\n" \o BibleSentence \o " " \o ReferenceSentence
PageGod == "CHAPTER III\n12\nWe believe God is holy. He is the Creator and sovereign God!"
PageIntro == "CHAPTER I\nWe believe God is holy."
PagePlain == "The Bible is the inspiration of faith. We believe God must keep the lost."
PageCivil == "This chapter civil. We believe the holy Scripture is the Bible-\ntestament."
PageFaith == "CHAPTER VIII\nWe believe that faith must justify the lost. We believe in the new birth."
\* a numeral ROMAN_TO_INT does not have, and two markers, the first in small letters
PageTwelve == "CHAPTER XII\nWe believe God is holy."
PageTwoMarkers == "Chapter iv ends. CHAPTER V\nWe believe God is holy."

\* the page texts reader.pages[i].extract_text() returns
PageTexts ==
    {PageBible, PageGod, PageIntro, PagePlain, PageCivil, PageFaith, PageTwelve, PageTwoMarkers}

\* --min-len, --max-len, --max-sents and --target of the miner
MinerArgs ==
    {[min_len |-> 20, max_len |-> 60, max_sents |-> 2, target |-> 2],
     [min_len |-> 36, max_len |-> 100, max_sents |-> 2, target |-> 11],
     [min_len |-> 20, max_len |-> 100, max_sents |-> 1, target |-> 0]}

\* ---- inputs of select_balanced and of dedupe ----

Cand(d, text, page, score) ==
    [doctrine |-> d, text |-> text, page |-> page, chapter |-> None, score |-> score]

\* m candidates for each of the doctrines 2..10
RECURSIVE Fill(_, _)
Fill(m, d) ==
    IF m = 0 THEN <<>>
    ELSE IF d > 10 THEN Fill(m - 1, 2)
    ELSE <<Cand(d, "God is holy", 10 * m + d, 180 + 5 * ((m + d) % 4))>> \o Fill(m, d + 1)

\* candidates of the first and the last doctrine, and one whose doctrine is no doctrine
ExtraCands ==
    {Cand(1, "God is holy", 2, 215), Cand(1, "God is holy", 1, 180),
     Cand(11, "God is holy", 1, 215), Cand(11, "God is holy", 3, 250),
     Cand(6, "God is holy", 1, 215), Cand(12, "God is holy", 1, 250)}

SelectInputs ==
    {Fill(m, 2) \o extra : m \in 0..MaxFill, extra \in SeqsUpTo(ExtraCands, MaxAdd)}

SelectArgs == [target : 0..MaxTotal]

TextA == "We believe God is holy."
TextB == "we believe: GOD is holy!"

DedupeItems ==
    {Cand(2, TextA, 1, 180), Cand(2, TextB, 1, 180), Cand(2, TextA, 2, 215),
     Cand(2, TextB, 2, 180), Cand(2, TextA, 2, 180), Cand(2, "God is the Creator.", 1, 215),
     Cand(2, "!!!", 1, 180), Cand(2, "???", 1, 215)}

\* ---- inputs of the cleaner ----

Item(text, score, page) == [text |-> text, score |-> score, page |-> page]

CleanerItems ==
    {Item(TextA, 180, 1), Item(TextB, 180, 1), Item(TextA, 215, 2), Item(TextB, 180, None),
     Item("Section II." \o EM_DASH \o " We believe God is holy.", 180, 2),
     Item("We believe in grace. We believe in faith.", 215, 1),
     Item("\"\"", 180, 1), Item("!!!", 180, 1), Item("Holy", 215, 1)}

\* --min-len, --max-len and --no-split-we-believe of the cleaner
CleanerArgs ==
    {[min_len |-> 3, max_len |-> 23, no_split_we_believe |-> FALSE],
     [min_len |-> 5, max_len |-> 60, no_split_we_believe |-> TRUE]}

\* ---- inputs of the review ----

ReviewTexts ==
    {"We believe that the grace of God is free to all who will receive it by faith.",
     "WE BELIEVE that the grace of God is free to all, who will receive it by faith!",
     "The grace of God is free to all who beli",
     "Section II." \o EM_DASH \o " The grace of God is free to",
     "THE BIBLE and the grace of God are free",
     "THE BIBLE says that the grace of God is free to all who will receive it by faith.",
     "However, the grace of God is free to all people who will receive it by faith.",
     "The wicked and the grace of God are fre",
     "In Sec. 4 we read that the grace of God is free to all who receive it by faith."}

ReviewItems == {Item(t, 180, 1) : t \in ReviewTexts}

\* the items among which the duplicates are: those of the cleaner that yield a record
\* with a score, and for the review a text, its duplicate in other letters and
\* punctuation, and two fragments
CleanerDuplicates == CleanerItems \ {Item("\"\"", 180, 1), Item("Holy", 215, 1)}

ReviewDuplicates ==
    {Item(t, 180, 1) :
        t \in {"We believe that the grace of God is free to all who will receive it by faith.",
               "WE BELIEVE that the grace of God is free to all, who will receive it by faith!",
               "The grace of God is free to all who beli",
               "THE BIBLE and the grace of God are free"}}

\* the items among which the review finds repeats: those above, a text that is flagged,
\* the same text without its full stop, which would be dropped, and a text that is flagged
ReviewRepeats ==
    ReviewDuplicates \cup
    {Item(t, 180, 1) :
        t \in {"THE BIBLE says that the grace of God is free to all who will receive it by faith.",
               "THE BIBLE says that the grace of God is free to all who will receive it by faith",
               "However, the grace of God is free to all people who will receive it by faith."}}

NoArgs == [target |-> 0]

\* ---- initial states ----

\* nothing read, computed, requested or written yet
Quiet ==
    /\ pageno = 0
    /\ raw = ""
    /\ current_chapter = None
    /\ all_cands = <<>>
    /\ selected = <<>>
    /\ produced = <<>>
    /\ cleaned = <<>>
    /\ safe = <<>>
    /\ flagged = <<>>
    /\ dropped = <<>>
    /\ dup_count = 0
    /\ kept_before = <<>>
    /\ result = <<>>
    /\ net = <<>>
    /\ outfile = <<>>
    /\ nth = 0
    /\ all_quotes = <<>>
    /\ urls = <<>>
    /\ all_hits = <<>>
    /\ last_doctrine = None
    /\ last_chapter_roman = None
    /\ all_candidates = <<>>

\* a world with no network
NoEnv == [denied |-> {}, unreadable |-> FALSE, down |-> {}]

Idle == env = NoEnv /\ Quiet

\* the miner before its first page: arguments parsed, nothing read
InitMiner ==
    /\ script = "miner"
    /\ pc = "pages"
    /\ args \in MinerArgs
    /\ data = <<>>
    /\ Idle

InitSelect ==
    /\ script = "select"
    /\ pc = "input"
    /\ args \in SelectArgs
    /\ data \in SelectInputs
    /\ Idle

InitDedupe ==
    /\ script = "dedupe"
    /\ pc = "input"
    /\ args = NoArgs
    /\ data \in SeqsUpTo(DedupeItems, MaxItems)
    /\ Idle

\* the cleaner after json.loads of an input file with items of the given set
InitCleanerOn(items) ==
    /\ script = "cleaner"
    /\ pc = "input"
    /\ args \in CleanerArgs
    /\ data \in SeqsUpTo(items, MaxItems)
    /\ Idle

InitCleaner == InitCleanerOn(CleanerItems)

\* the review after json.loads of an input file with items of the given set
InitReviewOn(items) ==
    /\ script = "review"
    /\ pc = "input"
    /\ args = NoArgs
    /\ data \in SeqsUpTo(items, MaxItems)
    /\ Idle

InitReview == InitReviewOn(ReviewItems)

\* ---- the steps ----

\* current_chapter after the chapter detection of one round of the page loop
\* a numeral that is not recognised resets the chapter
ChapterOfOrNone(m, chapter) == IF m /= "" THEN ROMAN_TO_INT(Upper(m), None) ELSE chapter

ChapterOf(m, chapter) == IF m /= "" THEN ROMAN_TO_INT(Upper(m), chapter) ELSE chapter

ChapterAfter(page_text, chapter) == ChapterOf(CHAPTER_RE(page_text), chapter)

\* one round of the page loop of the miner's main
MinePage(page_text) ==
    /\ script = "miner"
    /\ pc = "pages"
    /\ pageno < MaxPages
    /\ current_chapter' = ChapterAfter(page_text, current_chapter)
    /\ all_cands' = all_cands \o
           extract_candidates_from_page(page_text, pageno + 1, current_chapter', args.min_len,
                                        args.max_len, args.max_sents)
    /\ pageno' = pageno + 1
    /\ raw' = page_text
    /\ data' = Append(data, page_text)
    /\ UNCHANGED <<script, pc, args, selected, cleanerVars, reviewVars, kept_before, result, laterVars>>

\* the end of the miner's main, after the last page: dedupe, then select_balanced
MineFinish ==
    /\ script = "miner"
    /\ pc = "pages"
    /\ all_cands' = dedupe(all_cands)
    /\ selected' = select_balanced(all_cands', args.target)
    /\ pc' = "done"
    /\ UNCHANGED <<script, args, data, pageno, raw, current_chapter, cleanerVars, reviewVars,
                   kept_before, result, laterVars>>

\* select_balanced(data, total)
SelectBalanced ==
    /\ script = "select"
    /\ pc = "input"
    /\ selected' = select_balanced(data, args.target)
    /\ pc' = "done"
    /\ UNCHANGED <<script, args, data, pageno, raw, current_chapter, all_cands, cleanerVars,
                   reviewVars, kept_before, result, laterVars>>

\* the two positions i and i + 1 of a list exchanged
Swap(seq, i) == [seq EXCEPT ![i] = seq[i + 1], ![i + 1] = seq[i]]

\* dedupe applied to the list input
DedupeOn(input) ==
    /\ script = "dedupe"
    /\ data' = input
    /\ all_cands' = dedupe(input)
    /\ UNCHANGED <<script, args, pageno, raw, current_chapter, selected, cleanerVars,
                   reviewVars>>

Dedupe == pc = "input" /\ DedupeOn(data) /\ pc' = "done" /\ UNCHANGED <<kept_before, result, laterVars>>

\* the same candidates handed to dedupe in another order, once: two of its items exchanged
DedupeReordered ==
    /\ pc = "done"
    /\ kept_before = <<>>
    /\ \E i \in 1..(Len(data) - 1) : DedupeOn(Swap(data, i))
    /\ kept_before' = <<all_cands>>
    /\ UNCHANGED <<pc, result, laterVars>>

\* the cleaner's main on the items of input
CleanerOn(input) ==
    /\ script = "cleaner"
    /\ data' = input
    /\ produced' = Produce(input, args.min_len, args.max_len, args.no_split_we_believe)
    /\ cleaned' = Cleaned(produced')
    /\ UNCHANGED <<script, args, minerVars, reviewVars>>

CleanerMain == pc = "input" /\ CleanerOn(data) /\ pc' = "done" /\ UNCHANGED <<kept_before, result, laterVars>>

\* the cleaner run on the same items in another order, once: two of its items exchanged
CleanerReordered ==
    /\ pc = "done"
    /\ kept_before = <<>>
    /\ \E i \in 1..(Len(data) - 1) : CleanerOn(Swap(data, i))
    /\ kept_before' = <<cleaned>>
    /\ UNCHANGED <<pc, result, laterVars>>

\* the review's main on the items of input
ReviewOn(input) ==
    /\ script = "review"
    /\ data' = input
    /\ \E rv \in {Review(input)} :
           /\ safe' = rv.safe
           /\ flagged' = rv.flagged
           /\ dropped' = rv.dropped
           /\ dup_count' = rv.dup_count
    /\ UNCHANGED <<script, args, minerVars, cleanerVars>>

ReviewMain == pc = "input" /\ ReviewOn(data) /\ pc' = "done" /\ UNCHANGED <<kept_before, result, laterVars>>

\* the review run on the same items in another order, once: two of its items exchanged
ReviewReordered ==
    /\ pc = "done"
    /\ kept_before = <<>>
    /\ \E i \in 1..(Len(data) - 1) : ReviewOn(Swap(data, i))
    /\ kept_before' = <<safe \o flagged \o dropped>>
    /\ UNCHANGED <<pc, result, laterVars>>

\* ---- specifications ----

\* the miner alone
NextMine == (\E page_text \in PageTexts : MinePage(page_text)) \/ MineFinish
SpecMine == InitMiner /\ [][NextMine]_vars

\* select_balanced alone
SpecSelect == InitSelect /\ [][SelectBalanced]_vars

\* the three scripts that remove duplicates, each also run on a reordered input
InitDedup ==
    InitDedupe \/ InitCleanerOn(CleanerDuplicates) \/ InitReviewOn(ReviewDuplicates)
NextDedup ==
    \/ Dedupe
    \/ DedupeReordered
    \/ CleanerMain
    \/ CleanerReordered
    \/ ReviewMain
    \/ ReviewReordered
SpecDedup == InitDedup /\ [][NextDedup]_vars

\* the two scripts that emit records under a length filter
InitEmit == InitMiner \/ InitCleaner
NextEmit == (\E page_text \in PageTexts : MinePage(page_text)) \/ MineFinish \/ CleanerMain
SpecEmit == InitEmit /\ [][NextEmit]_vars

\* the review alone
SpecReview == InitReview /\ [][ReviewMain]_vars

\* the review on lists with repeats
SpecRepeats == InitReviewOn(ReviewRepeats) /\ [][ReviewMain]_vars

(***************************************************************************)
(* The functions applied to inputs of their own.  script says which:       *)
(*   "keys"  the three key functions on a text and on the text after edits *)
(***************************************************************************)

\* the variables no function application touches
restVars == <<args, minerVars, cleanerVars, reviewVars, kept_before, laterVars>>

\* ---- bounds ----

\* the most edits made to a text
MaxEdits == 2

\* ---- the key functions ----

\* the ASCII punctuation marks the edits add and put in the place of others
Punctuation == {"!", "'"}

\* the texts the edits start from: the last two hold an OCR line-join marker and curly
\* quotes
KeyTexts ==
    {"We Believe!", "we believe", "Gov " \o NOT_SIGN \o " ernor",
     LDQUO \o "I am" \o RDQUO}

\* the key of a text in dedupe of the miner, in the cleaner and in the review
KeysOf(t) == [dedupe |-> DedupeKey(t), make_key |-> make_key(t), norm_key |-> norm_key(t)]

\* c put after the first g characters of t, and t without its character i
InsertAt(t, g, c) == SubSeq(t, 1, g) \o c \o SubSeq(t, g + 1, Len(t))
RemoveAt(t, i) == SubSeq(t, 1, i - 1) \o SubSeq(t, i + 1, Len(t))

\* the place after the first g characters of t is the start or end of t or next to a space
GapAtEdge(t, g) == g = 0 \/ g = Len(t) \/ Chr(t, g) = " " \/ Chr(t, g + 1) = " "

\* the place after the first g characters of t is inside t and in or next to the
\* whitespace around a line-join marker
InMarkerSpace(t, g) ==
    /\ 0 < g
    /\ g < Len(t)
    /\ \E m \in 1..Len(t) :
           /\ Chr(t, m) = NOT_SIGN
           /\ RunStart(t, m - 1, SpaceSet) - 1 <= g
           /\ g <= RunEnd(t, m + 1, SpaceSet)

SwapCase(c) == IF c \in UpperSet THEN LowerChar(c) ELSE UpperChar(c)

\* the case of one letter changed
CaseEdits(t) ==
    {[text |-> InsertAt(RemoveAt(t, i), i - 1, SwapCase(Chr(t, i))), near |-> FALSE] :
        i \in {j \in 1..Len(t) : Chr(t, j) \in UpperSet \cup LowerSet}}

\* a punctuation mark added at the start or end or next to a space
InsertEdits(t) ==
    {[text |-> InsertAt(t, e[1], e[2]), near |-> InMarkerSpace(t, e[1])] :
        e \in {g \in 0..Len(t) : GapAtEdge(t, g)} \X Punctuation}

\* the punctuation marks of t at the start or end or next to a space
EdgeMarks(t) ==
    {i \in 1..Len(t) : Chr(t, i) \in Punctuation /\ GapAtEdge(RemoveAt(t, i), i - 1)}

\* such a punctuation mark removed
RemoveEdits(t) ==
    {[text |-> RemoveAt(t, i), near |-> InMarkerSpace(RemoveAt(t, i), i - 1)] :
        i \in EdgeMarks(t)}

\* such a punctuation mark changed into another
ChangeEdits(t) ==
    {[text |-> InsertAt(RemoveAt(t, e[1]), e[1] - 1, e[2]), near |-> FALSE] :
        e \in {f \in EdgeMarks(t) \X Punctuation : Chr(t, f[1]) /= f[2]}}

EditsOf(t) == CaseEdits(t) \cup InsertEdits(t) \cup RemoveEdits(t) \cup ChangeEdits(t)

\* a text before any edit; data holds the text, result the keys before and after the
\* last edit, whether that edit was near a marker, and the number of edits so far
InitKeys ==
    /\ script = "keys"
    /\ pc = "input"
    /\ args = NoArgs
    /\ data \in {<<t>> : t \in KeyTexts}
    /\ Idle

EditsSoFar == IF result = <<>> THEN 0 ELSE result[1].edits

\* one edit of the text, and the three keys of the text before and after it
EditText ==
    /\ script = "keys"
    /\ EditsSoFar < MaxEdits
    /\ \E e \in EditsOf(data[1]) :
           /\ data' = <<e.text>>
           /\ result' = <<[edits |-> EditsSoFar + 1, near |-> e.near,
                           before |-> KeysOf(data[1]), after |-> KeysOf(e.text)]>>
    /\ pc' = "done"
    /\ UNCHANGED <<script, restVars>>

SpecKeys == InitKeys /\ [][EditText]_vars

(***************************************************************************)
(*   "normalize"  a normalizer on a text and on its own result             *)
(***************************************************************************)

\* the most pieces a text is made of
MaxPieces == 3

\* the pieces of the texts: a letter, a digit, a hyphen at a line end, whitespace, a
\* soft hyphen, a line-join marker and a curly quote
TextPieces == {"a", "7", "-\n", " ", "\n", SOFT_HYPHEN, NOT_SIGN, LDQUO}

\* the texts of at most n pieces
RECURSIVE TextsOf(_)
TextsOf(n) ==
    IF n = 0 THEN {""}
    ELSE TextsOf(n - 1) \cup {tp[1] \o tp[2] : tp \in TextsOf(n - 1) \X TextPieces}

Normalizers == {"norm", "normalize_text", "normalize"}

\* the normalizer called f applied to s
Normalized(f, s) ==
    CASE f = "norm" -> norm(s)
      [] f = "normalize_text" -> normalize_text(s)
      [] f = "normalize" -> normalize(s)

InitNormalize ==
    /\ script = "normalize"
    /\ pc = "input"
    /\ args = NoArgs
    /\ data \in {<<t>> : t \in TextsOf(MaxPieces)}
    /\ Idle

\* one of the normalizers applied to the text, and again to what it returned
Normalize ==
    /\ script = "normalize"
    /\ pc = "input"
    /\ \E f \in Normalizers :
           \E once \in {Normalized(f, data[1])} :
               result' = <<[f |-> f, once |-> once, twice |-> Normalized(f, once)]>>
    /\ pc' = "done"
    /\ UNCHANGED <<script, data, restVars>>

SpecNormalize == InitNormalize /\ [][Normalize]_vars

(***************************************************************************)
(*   "strip"  strip_boilerplate on a text                                  *)
(***************************************************************************)

\* the most parts a text given to strip_boilerplate is made of
MaxParts == 3

\* the scenario of the cleaner: two headings and a doctrinal statement
HeadingBible == "I." \o EM_DASH \o "The Bible "
HeadingInspiration == "Section II." \o EM_DASH \o "Inspiration "
StatementOneGod == "We believe in one God."

\* the parts of the texts: the headings, the statement, a letter, a line-join marker,
\* a quote and a space
StripParts == {HeadingBible, HeadingInspiration, StatementOneGod, "a", NOT_SIGN, "\"", " "}

\* the texts of at most n parts
RECURSIVE StripTexts(_)
StripTexts(n) ==
    IF n = 0 THEN {""}
    ELSE StripTexts(n - 1) \cup {tp[1] \o tp[2] : tp \in StripTexts(n - 1) \X StripParts}

InitStrip ==
    /\ script = "strip"
    /\ pc = "input"
    /\ args = NoArgs
    /\ data \in {<<t>> : t \in StripTexts(MaxParts)}
    /\ Idle

\* strip_boilerplate applied to the text
StripBoilerplate ==
    /\ script = "strip"
    /\ pc = "input"
    /\ result' = <<[out |-> strip_boilerplate(data[1])]>>
    /\ pc' = "done"
    /\ UNCHANGED <<script, data, restVars>>

SpecStrip == InitStrip /\ [][StripBoilerplate]_vars

(***************************************************************************)
(*   "split"  split_we_believe_blocks on a text                            *)
(***************************************************************************)

\* a statement with a note inside a note: once the inner note is removed the outer
\* one reads as a note
StatementNested == "We (se(see a)e b)believe b. "

\* the parts of the texts: statements, one of them after a note and in other letters,
\* and a section label
SplitParts ==
    {"We believe a. ", StatementNested, "We believe c. ", "(see John) we  BELIEVE d; ",
     "Section IV. "}

\* the texts of at most n parts
RECURSIVE SplitTexts(_)
SplitTexts(n) ==
    IF n = 0 THEN {""}
    ELSE SplitTexts(n - 1) \cup {tp[1] \o tp[2] : tp \in SplitTexts(n - 1) \X SplitParts}

InitSplit ==
    /\ script = "split"
    /\ pc = "input"
    /\ args = NoArgs
    /\ data \in {<<t>> : t \in SplitTexts(MaxParts)}
    /\ Idle

\* split_we_believe_blocks applied to the text
SplitBlocks ==
    /\ script = "split"
    /\ pc = "input"
    /\ result' = split_we_believe_blocks(data[1])
    /\ pc' = "done"
    /\ UNCHANGED <<script, data, restVars>>

SpecSplit == InitSplit /\ [][SplitBlocks]_vars

(***************************************************************************)
(*   "windows"  windows_from_sentences on a list of sentences              *)
(***************************************************************************)

\* the most sentences of a list, and the largest max_sents
MaxSentences == 3
MaxWidth == 3

\* sentences as extract_candidates_from_page passes them: stripped and not empty
SentencePool == {"God is.", "We believe.", "Is it so?"}

RECURSIVE SentenceLists(_)
SentenceLists(n) ==
    IF n = 0 THEN {<<>>}
    ELSE SentenceLists(n - 1)
         \cup {Append(ls[1], ls[2]) : ls \in SentenceLists(n - 1) \X SentencePool}

InitWindows ==
    /\ script = "windows"
    /\ pc = "input"
    /\ args \in {[max_sents |-> k] : k \in 1..MaxWidth}
    /\ data \in SentenceLists(MaxSentences)
    /\ Idle

\* windows_from_sentences applied to the list
Windows ==
    /\ script = "windows"
    /\ pc = "input"
    /\ result' = windows_from_sentences(data, args.max_sents)
    /\ pc' = "done"
    /\ UNCHANGED <<script, data, restVars>>

SpecWindows == InitWindows /\ [][Windows]_vars

\* ---- the end of main of the 1923 miner applied to the candidates of the ----
\* ---- pages: script = "finish"                                          ----

\* candidates of two doctrines, two pairs of them with one key
FinishCands ==
    {Cand(1, "God is holy.", 1, 200), Cand(1, "God is holy", 2, 215),
     Cand(1, "God is love", 1, 190), Cand(2, "Christ is Lord", 3, 215),
     Cand(2, "christ is lord!", 1, 215)}

\* the most candidates the pages give
MaxCands == 3

\* targets with a base of 0 and of 1
FinishArgs == [target : {0, 2, 11, 12}]

InitFinish ==
    /\ script = "finish"
    /\ pc = "input"
    /\ args \in FinishArgs
    /\ data \in SeqsUpTo(FinishCands, MaxCands)
    /\ Idle

\* dedupe and select_balanced, as main calls them on all_cands after the page loop;
\* the audit file is written from all_cands and the final file from selected
Finish ==
    /\ script = "finish"
    /\ pc = "input"
    /\ all_cands' = dedupe(data)
    /\ selected' = select_balanced(all_cands', args.target)
    /\ pc' = "done"
    /\ UNCHANGED <<script, args, data, pageno, raw, current_chapter, cleanerVars, reviewVars,
                   kept_before, result, laterVars>>

SpecFinish == InitFinish /\ [][Finish]_vars

\* ---- extract_candidates_from_page of the 1923 miner applied to pages: ----
\* ---- script = "extract"                                               ----

SentenceOfChapterEight ==
    "We believe that repentance, faith, conversion, regeneration and the new birth "
    \o "mean to be born again, as John teaches the lost."

ExtractSentences ==
    {SentenceOfChapterEight, "We believe that repentance and faith are necessary to salvation.",
     "See Romans 3:23."}

\* pages of one line and of two
ExtractPages ==
    ExtractSentences \cup {p[1] \o "\n" \o p[2] : p \in ExtractSentences \X ExtractSentences}

\* the lengths of the command line of the miner as given and its defaults
ExtractArgs ==
    [min_len : {20, 120}, max_len : {280}, max_sents : {1, 3}, chapter : {None, 8}]

InitExtract ==
    /\ script = "extract"
    /\ pc = "input"
    /\ args \in ExtractArgs
    /\ data \in {<<p>> : p \in ExtractPages}
    /\ Idle

\* extract_candidates_from_page applied to the page, as page 1 of the chapter
Extract ==
    /\ script = "extract"
    /\ pc = "input"
    /\ result' = extract_candidates_from_page(data[1], 1, args.chapter, args.min_len,
                                              args.max_len, args.max_sents)
    /\ pc' = "done"
    /\ UNCHANGED <<script, data, restVars>>

SpecExtract == InitExtract /\ [][Extract]_vars

(***************************************************************************)
(* collect_official_sa_quotes.py                                           *)
(*                                                                         *)
(* A Quote is [author, text, source_url].  The pages are text without      *)
(* markup, which BeautifulSoup(html).get_text("\n") returns as it is.      *)
(***************************************************************************)

\* [ln.strip() for ln in text.splitlines() if ln.strip()]
StrippedLines(text) ==
    SelectSeq([n \in 1..Len(SplitLines(text)) |-> Strip(SplitLines(text)[n], SpaceSet)],
              NonEmpty)

\* the shortest and longest text CURly_QUOTE_RE takes between the curly quotes
CurlyMin == 5
CurlyMax == 500

\* CURly_QUOTE_RE matched with its opening quote at p: the closing quote is the first
\* one after p, and 5 to 500 characters lie between the two; group 1, or "" when not
CurlyQuoteAt(line, p) ==
    IF p <= Len(line) /\ Chr(line, p) = LSQUO
    THEN Let(SkipIn(line, p + 1, CharsOf(line) \ {RSQUO}), LAMBDA q :
             IF q <= Len(line) /\ q - p - 1 >= CurlyMin /\ q - p - 1 <= CurlyMax
             THEN SubSeq(line, p + 1, q - 1) ELSE "")
    ELSE ""

\* CURly_QUOTE_RE.search(line): group 1 of the first match, or "" when there is none
CURly_QUOTE_RE(line) ==
    Let({p \in 1..Len(line) : CurlyQuoteAt(line, p) /= ""}, LAMBDA hits :
        IF hits = {} THEN "" ELSE CurlyQuoteAt(line, Min(hits)))

\* the lines the author is looked for in
LookAhead == 6

\* the author of the quote of line i: the next line within reach that starts with
\* "General ", up to its first "(", or the default
AuthorAfter(lines, i) ==
    Let({j \in {k \in (i + 1)..(i + LookAhead - 1) : k <= Len(lines)} : StartsAt(lines[j], 1, "General ")},
        LAMBDA found :
            IF found = {} THEN "The Salvation Army"
            ELSE Strip(SubSeq(lines[Min(found)], 1, FindIn(lines[Min(found)], {"("}) - 1),
                       SpaceSet))

\* the loop of extract_from_generals_page over the lines from line i on
RECURSIVE GeneralsQuotes(_, _, _)
GeneralsQuotes(lines, i, source_url) ==
    IF i > Len(lines) THEN <<>>
    ELSE (IF CURly_QUOTE_RE(lines[i]) /= ""
          THEN <<[author |-> AuthorAfter(lines, i),
                  text |-> Strip(CURly_QUOTE_RE(lines[i]), SpaceSet),
                  source_url |-> source_url]>>
          ELSE <<>>)
         \o GeneralsQuotes(lines, i + 1, source_url)

\* the removal of exact repeats of (author, text), the first of each kept
RECURSIVE FirstOfEach(_, _)
FirstOfEach(quotes, seen) ==
    IF quotes = <<>> THEN <<>>
    ELSE Let(<<Head(quotes).author, Head(quotes).text>>, LAMBDA key :
             IF key \in seen THEN FirstOfEach(Tail(quotes), seen)
             ELSE <<Head(quotes)>> \o FirstOfEach(Tail(quotes), seen \cup {key}))

\* extract_from_generals_page(html, source_url)
extract_from_generals_page(html, source_url) ==
    FirstOfEach(GeneralsQuotes(StrippedLines(html), 1, source_url), {})

\* re.sub(r"^\d+\.\s*", "", ln)
StripItemNumber(ln) ==
    Let(SkipIn(ln, 1, DigitSet), LAMBDA e :
        IF e > 1 /\ e <= Len(ln) /\ Chr(ln, e) = "."
        THEN LStrip(From(ln, e + 1), SpaceSet) ELSE ln)

\* FOUNDERS_ITEM_RE matched with the closing quote of group 1 at c:
\* ^'(.+?)'\s*-\s*(.+?)\s*$
FoundersItemAt(ln, c) ==
    /\ c >= 3
    /\ c <= Len(ln)
    /\ Chr(ln, 1) = "'"
    /\ Chr(ln, c) = "'"
    /\ Let(SkipIn(ln, c + 1, SpaceSet), LAMBDA d :
           d < Len(ln) /\ Chr(ln, d) = "-")

\* the loop of extract_from_founders_day_page over the lines
RECURSIVE FoundersQuotes(_, _)
FoundersQuotes(lines, source_url) ==
    IF lines = <<>> THEN <<>>
    ELSE Let(StripItemNumber(Head(lines)), LAMBDA ln2 :
         Let({c \in 1..Len(ln2) : FoundersItemAt(ln2, c)}, LAMBDA ends :
             (IF ends = {} THEN <<>>
              ELSE <<[author |-> Strip(From(ln2, SkipIn(ln2, Min(ends) + 1, SpaceSet) + 1),
                                       SpaceSet),
                      text |-> Strip(SubSeq(ln2, 2, Min(ends) - 1), SpaceSet),
                      source_url |-> source_url]>>)
             \o FoundersQuotes(Tail(lines), source_url)))

\* extract_from_founders_day_page(html, source_url)
extract_from_founders_day_page(html, source_url) ==
    FoundersQuotes(StrippedLines(html), source_url)

\* to_pwa_quotes(quotes)
to_pwa_quotes(quotes) ==
    [n \in 1..Len(quotes) |-> [author |-> quotes[n].author, text |-> quotes[n].text]]

\* a test of the shape of a URL that every URL passes
IsAnyUrl(url) == Contains(url, "")

\* the two page shapes main has an extractor for
IsGeneralsUrl(url) == Contains(url, "generals-salvation-army")
IsFoundersUrl(url) == Contains(url, "founders-day-quotes-william-and-catherine-booth")

\* ---- the collector as a state machine: script = "collect" ----
\* pc is "robots" before the robots.txt check of a URL, "fetch" after the check
\* allowed it, "write" after the loop, "done" after the output is written and "exit"
\* after SystemExit or an exception nothing catches

\* the most URLs on a command line
MaxUrls == 2

GeneralsUrl == "https://www.salvationarmy.org/generals-salvation-army"
FoundersUrl == "https://www.salvationarmy.org/founders-day-quotes-william-and-catherine-booth"
AboutUrl == "https://www.salvationarmy.org/about-us"

PageUrls == {GeneralsUrl, FoundersUrl, AboutUrl}

GeneralsPage ==
    "Generals\n" \o LSQUO \o "Go for souls" \o RSQUO \o "\n General William Booth (1878)\n"
    \o LSQUO \o "Amen" \o RSQUO \o "\n" \o LSQUO \o "Others first" \o RSQUO \o "\n\n"
    \o LSQUO \o "Go for souls" \o RSQUO \o "\nGeneral William Booth (1912)"

FoundersPage ==
    "Founders' Day\n1. 'Work as if all.' - Catherine Booth\n'No author' -\n"
    \o "12.'God's way is best.'- William Booth"

\* what the server returns for a URL
HtmlOf(url) ==
    IF url = GeneralsUrl THEN GeneralsPage
    ELSE IF url = FoundersUrl THEN FoundersPage
    ELSE "About us"

\* the worlds: the URLs robots.txt disallows, whether robots.txt can be read at all,
\* and the URLs whose GET fails
CollectEnvs ==
    [denied : SUBSET PageUrls, unreadable : BOOLEAN, down : SUBSET PageUrls]

\* a check that allows every URL, whatever robots.txt says
AllowsAll(url) == env.unreadable \/ url \in PageUrls

\* robots_allows(url, user_agent): True when robots.txt cannot be read
robots_allows(url) == env.unreadable \/ url \notin env.denied

InitCollect ==
    /\ script = "collect"
    /\ pc = "robots"
    /\ args \in {[url |-> u] : u \in SeqsUpTo(PageUrls, MaxUrls) \ {<<>>}}
    /\ data = <<>>
    /\ env \in CollectEnvs
    /\ Quiet

\* the robots.txt check of the next URL; SystemExit when it is blocked
RobotsCheck ==
    /\ script = "collect"
    /\ pc = "robots"
    /\ net' = Append(net, [op |-> "robots", url |-> args.url[nth + 1],
                           ok |-> robots_allows(args.url[nth + 1])])
    /\ pc' = IF robots_allows(args.url[nth + 1]) THEN "fetch" ELSE "exit"
    /\ UNCHANGED <<script, args, data, minerVars, cleanerVars, reviewVars, kept_before, result,
                   env, outfile, collectVars, wideVars, handbookVars>>

\* the rest of the round: fetch_html, then the extractor of the shape of the URL;
\* raise_for_status and a URL of no registered shape end the run
FetchAndExtract ==
    /\ script = "collect"
    /\ pc = "fetch"
    /\ \E url \in {args.url[nth + 1]} :
           /\ net' = Append(net, [op |-> "get", url |-> url, ok |-> url \notin env.down])
           /\ IF url \in env.down \/ ~(IsGeneralsUrl(url) \/ IsFoundersUrl(url))
              THEN pc' = "exit" /\ UNCHANGED collectVars
              ELSE /\ all_quotes' = all_quotes \o
                          (IF IsGeneralsUrl(url)
                           THEN extract_from_generals_page(HtmlOf(url), url)
                           ELSE extract_from_founders_day_page(HtmlOf(url), url))
                   /\ nth' = nth + 1
                   /\ pc' = IF nth' < Len(args.url) THEN "robots" ELSE "write"
    /\ UNCHANGED <<script, args, data, minerVars, cleanerVars, reviewVars, kept_before, result,
                   env, outfile, wideVars, handbookVars>>

\* the output file written in the format of the app
WriteQuotes ==
    /\ script = "collect"
    /\ pc = "write"
    /\ outfile' = <<to_pwa_quotes(all_quotes)>>
    /\ pc' = "done"
    /\ UNCHANGED <<script, args, data, minerVars, cleanerVars, reviewVars, kept_before, result,
                   env, net, collectVars, wideVars, handbookVars>>

NextCollect == RobotsCheck \/ FetchAndExtract \/ WriteQuotes
SpecCollect == InitCollect /\ [][NextCollect]_vars

(***************************************************************************)
(* collect_sa_quotes_wide.py                                               *)
(*                                                                         *)
(* A QuoteHit is [author, text, source_url, context].                      *)
(***************************************************************************)

THEOLOGY_INCLUDE ==
    <<"jesus", "christ", "lord", "god", "holy spirit", "spirit", "prayer", "gospel",
      "salvation", "saved", "redeem", "redemption", "grace", "mercy", "cross",
      "resurrection", "repent", "faith", "holiness", "sanctif", "scripture", "bible",
      "kingdom">>

CHARITY_EXCLUDE ==
    <<"donate", "donation", "fundraiser", "kettle", "food drive", "coat", "shelter",
      "disaster", "volunteer", "volunteers", "toy", "tickets", "registration">>

RANKS == <<"general", "commissioner", "colonel", "major", "lieutenant", "captain", "brigadier">>

\* SENTENCE_SPLIT.split(t) from position i on: (?<=[.!?])\s+
RECURSIVE SentenceSplitFrom(_, _)
SentenceSplitFrom(t, i) ==
    Let({b \in (i + 1)..Len(t) : Chr(t, b) \in SpaceSet /\ Chr(t, b - 1) \in {".", "!", "?"}},
        LAMBDA breaks :
            IF breaks = {} THEN <<From(t, i)>>
            ELSE <<SubSeq(t, i, Min(breaks) - 1)>>
                 \o SentenceSplitFrom(t, WsEnd(t, Min(breaks)) + 1))

SENTENCE_SPLIT(t) == SentenceSplitFrom(t, 1)

\* norm(s) of this script: WS.sub(" ", s).strip()
WS_norm(s) == Strip(CollapseWS(s), SpaceSet)

\* s.title()
Title(s) ==
    Cat([i \in 1..Len(s) |->
            IF i > 1 /\ Chr(s, i - 1) \in UpperSet \cup LowerSet
            THEN LowerChar(Chr(s, i)) ELSE UpperChar(Chr(s, i))],
        1, Len(s))

\* [A-Za-z.\-']
NameChars == UpperSet \cup LowerSet \cup {".", "-", "'"}

\* [A-Z][A-Za-z.\-']+ matched at i: its end, or 0
NameWordEnd(s, i) ==
    IF i + 1 <= Len(s) /\ Chr(s, i) \in UpperSet /\ Chr(s, i + 1) \in NameChars
    THEN RunEnd(s, i + 1, NameChars) ELSE 0

\* the words a name has after its first
MoreNameWords == 3

\* (?:\s+[A-Z][A-Za-z.\-']+){0,more} matched after position e: its end
RECURSIVE NameEnd(_, _, _)
NameEnd(s, e, more) ==
    IF more > 0 /\ WsEnd(s, e + 1) > e /\ NameWordEnd(s, WsEnd(s, e + 1) + 1) > 0
    THEN NameEnd(s, NameWordEnd(s, WsEnd(s, e + 1) + 1), more - 1)
    ELSE e

\* the pattern of guess_author for rank r matched at p: \b(r)\s+(name); group 2, or ""
RankNameAt(s, p, r) ==
    IF /\ StartsAt(s, p, r)
       /\ WordBoundary(s, p)
       /\ WsEnd(s, p + Len(r)) >= p + Len(r)
       /\ NameWordEnd(s, WsEnd(s, p + Len(r)) + 1) > 0
    THEN SubSeq(s, WsEnd(s, p + Len(r)) + 1,
                NameEnd(s, NameWordEnd(s, WsEnd(s, p + Len(r)) + 1), MoreNameWords))
    ELSE ""

\* guess_author(sentence)
guess_author(sentence) ==
    Let({n \in 1..Len(RANKS) : Contains(Lower(sentence), RANKS[n])}, LAMBDA found :
        IF found = {} THEN "Unknown"
        ELSE Let(RANKS[Min(found)], LAMBDA r :
             Let({p \in 1..Len(sentence) : RankNameAt(sentence, p, r) /= ""}, LAMBDA at :
                 IF at = {} THEN Title(r)
                 ELSE Title(r) \o " " \o Strip(RankNameAt(sentence, Min(at), r), SpaceSet))))

\* is_theology(sentence)
is_theology(sentence) ==
    /\ ~contains_any(sentence, CHARITY_EXCLUDE)
    /\ contains_any(sentence, THEOLOGY_INCLUDE)

\* the most characters of a sentence kept as its context
ContextLen == 300

\* the loop of extract_candidates over the sentences
RECURSIVE HitsOfSentences(_, _, _, _)
HitsOfSentences(sents, source_url, min_len, max_len) ==
    IF sents = <<>> THEN <<>>
    ELSE Let(WS_norm(Head(sents)), LAMBDA sn :
             (IF min_len <= Len(sn) /\ Len(sn) <= max_len /\ is_theology(sn)
              THEN <<[author |-> guess_author(sn), text |-> sn, source_url |-> source_url,
                      context |-> Slice(sn, 1, ContextLen)]>>
              ELSE <<>>)
             \o HitsOfSentences(Tail(sents), source_url, min_len, max_len))

\* extract_candidates(text, source_url, min_len, max_len)
extract_candidates(text, source_url, min_len, max_len) ==
    HitsOfSentences(SENTENCE_SPLIT(WS_norm(text)), source_url, min_len, max_len)

\* dedupe(hits) of this script: the first hit of each (author, text)
dedupe_hits(hits) == FirstOfEach(hits, {})

\* urllib.parse.quote(name) for the names of the model, whose only character outside
\* the safe set is the space
UrlQuote(name) == ReplaceChar(name, " ", "%20")

\* the rank of a file name in best_text_file_for_item, or None for a file that is no
\* text file; ranks are one more than in the code
TextFileRank(name) ==
    IF Len(name) >= 9 /\ Lower(From(name, Len(name) - 8)) = "_djvu.txt" THEN 1
    ELSE IF Len(name) >= 9 /\ Lower(From(name, Len(name) - 8)) = "_text.txt" THEN 2
    ELSE None

\* candidates.sort(key=(rank, len(name))) and candidates[0]: the first file of the
\* least key, the sort being stable; "" when there is no text file (RuntimeError)
BestTextFile(files) ==
    Let({n \in 1..Len(files) : TextFileRank(files[n]) /= None}, LAMBDA cands :
        IF cands = {} THEN ""
        ELSE files[Min({n \in cands : \A m \in cands :
                            \/ TextFileRank(files[n]) < TextFileRank(files[m])
                            \/ /\ TextFileRank(files[n]) = TextFileRank(files[m])
                               /\ Len(files[n]) <= Len(files[m])})])

\* the URL best_text_file_for_item(item) returns for the files of the metadata
StreamUrl(item, files) ==
    "https://archive.org/stream/" \o item \o "/" \o UrlQuote(BestTextFile(files))

\* ---- the collector of archive texts as a state machine: script = "wide" ----
\* pc is "items" in the loop over args.item, "urls" in the loop over urls and "done"
\* after the output file is written

WarCry1915 == "warcry-1915"
WarCry1916 == "warcry-1916"
WarCryIndex == "warcry-index"

WideItems == {WarCry1915, WarCry1916, WarCryIndex}

\* the files the metadata of an item lists
FilesOf(item) ==
    IF item = WarCry1915
    THEN <<"war cry 1915.pdf", "war cry 1915_abbyy_djvu.txt", "war cry 1915_text.txt",
           "war cry 1915_DJVU.TXT">>
    ELSE IF item = WarCry1916 THEN <<"warcry-1916_text.txt", "warcry-1916.pdf">>
    ELSE <<"index.xml">>

DirectUrl == "https://archive.org/download/warcry-1917/warcry-1917_djvu.txt"

\* the URLs --djvu-txt is given: one is the URL the lookup of an item finds
WideDirect == {DirectUrl, StreamUrl(WarCry1915, FilesOf(WarCry1915))}

WideUrls == WideDirect \cup {StreamUrl(WarCry1916, FilesOf(WarCry1916))}

\* the text behind a URL
TextOf(url) ==
    IF url = DirectUrl
    THEN "Faith in Christ saves the lost.\nThe Colonel prayed:  salvation is of the Lord."
    ELSE IF url = StreamUrl(WarCry1915, FilesOf(WarCry1915))
    THEN "THE WAR CRY\nThen  the general William Booth said God is love.\n"
         \o "Donate to the kettle for the Lord today! Pray."
    ELSE "Major Smith spoke. Faith in Christ saves the lost."

\* the worlds: the items whose metadata request fails and the URLs whose GET fails
WideEnvs == [nometa : SUBSET WideItems, down : SUBSET WideUrls]

\* the command lines: at least one item or URL, and MaxUrls of them at most
WideArgs ==
    {a \in [item : SeqsUpTo(WideItems, MaxUrls), djvu_txt : SeqsUpTo(WideDirect, MaxUrls),
            min_len : {12}, max_len : {60}] :
        Len(a.item) + Len(a.djvu_txt) \in 1..MaxUrls}

InitWide ==
    /\ script = "wide"
    /\ pc = "items"
    /\ args \in WideArgs
    /\ data = <<>>
    /\ env \in WideEnvs
    /\ Quiet

\* whether best_text_file_for_item(item) returns: the metadata arrives and lists a
\* text file
LookupOk(item) == item \notin env.nometa /\ BestTextFile(FilesOf(item)) /= ""

\* one round of the loop over args.item
WideLookup ==
    /\ script = "wide"
    /\ pc = "items"
    /\ nth < Len(args.item)
    /\ \E item \in {args.item[nth + 1]} :
           /\ net' = Append(net, [op |-> "meta", url |-> item, ok |-> item \notin env.nometa])
           /\ urls' = IF LookupOk(item) THEN Append(urls, StreamUrl(item, FilesOf(item)))
                      ELSE urls
    /\ nth' = nth + 1
    /\ UNCHANGED <<script, pc, args, data, minerVars, cleanerVars, reviewVars, kept_before,
                   result, env, outfile, all_quotes, all_hits, handbookVars>>

\* urls.extend(args.djvu_txt) after the loop over args.item
WideExtend ==
    /\ script = "wide"
    /\ pc = "items"
    /\ nth = Len(args.item)
    /\ urls' = urls \o args.djvu_txt
    /\ nth' = 0
    /\ pc' = "urls"
    /\ UNCHANGED <<script, args, data, minerVars, cleanerVars, reviewVars, kept_before,
                   result, ioVars, all_quotes, all_hits, handbookVars>>

\* a round of the loop over urls that adds nothing
NoHits(u, min_len, max_len) == <<>>

\* what a round of the loop over urls adds to all_hits: nothing when fetch_text raises
HitsOfUrl(u, min_len, max_len) ==
    IF u \in env.down THEN <<>> ELSE extract_candidates(TextOf(u), u, min_len, max_len)

\* one round of the loop over urls
WideFetch ==
    /\ script = "wide"
    /\ pc = "urls"
    /\ nth < Len(urls)
    /\ net' = Append(net, [op |-> "get", url |-> urls[nth + 1],
                           ok |-> urls[nth + 1] \notin env.down])
    /\ all_hits' = all_hits \o HitsOfUrl(urls[nth + 1], args.min_len, args.max_len)
    /\ nth' = nth + 1
    /\ UNCHANGED <<script, pc, args, data, minerVars, cleanerVars, reviewVars, kept_before,
                   result, env, outfile, all_quotes, urls, handbookVars>>

\* dedupe and the output file, after the loop over urls
WideWrite ==
    /\ script = "wide"
    /\ pc = "urls"
    /\ nth = Len(urls)
    /\ all_hits' = dedupe_hits(all_hits)
    /\ outfile' = <<all_hits'>>
    /\ pc' = "done"
    /\ UNCHANGED <<script, args, data, minerVars, cleanerVars, reviewVars, kept_before,
                   result, env, net, collectVars, urls, handbookVars>>

SpecWide == InitWide /\ [][WideLookup \/ WideExtend \/ WideFetch \/ WideWrite]_vars

(***************************************************************************)
(* filter_non_scripture_quotes.py                                          *)
(*                                                                         *)
(* A record of the audit is [author, text, method]; every record of the    *)
(* model has the three keys.                                               *)
(***************************************************************************)

\* the translations SCRIPTUREISH names
VERSIONS == <<"niv", "kjv", "nkjv", "esv", "nlt", "cev">>

\* \b(NIV|KJV|NKJV|ESV|NLT|CEV)\b at i of the lowercased text t, without the first \b
VersionAt(t, i) ==
    \E n \in 1..Len(VERSIONS) :
        StartsAt(t, i, VERSIONS[n]) /\ WordBoundary(t, i + Len(VERSIONS[n]))

\* SCRIPTUREISH.search(text) is not None (re.IGNORECASE): the name of a book, the
\* numeral of "1 Samuel" and the like after one space only, a chapter:verse pattern
\* or the name of a translation
SCRIPTUREISH(text) ==
    Let(Lower(text), LAMBDA t :
        \E i \in 1..Len(text) :
            \/ VerseRefAt(text, i)
            \/ WordBoundary(t, i) /\ (BookNameAt(t, i) \/ VersionAt(t, i)))

\* whether the loop of main keeps record q; only_method "" stands for None
FilterKeeps(q, a) ==
    Let(Strip(q.text, SpaceSet), LAMBDA text :
        /\ text /= ""
        /\ ~(Len(text) < a.min_len \/ Len(text) > a.max_len)
        /\ ~SCRIPTUREISH(text)
        /\ ~(a.only_method /= "" /\ q.method /= a.only_method)
        /\ ~(a.drop_unknown /\ (q.author = "Unknown" \/ q.author = "")))

\* the loop of main over audit
RECURSIVE FilterLoop(_, _)
FilterLoop(audit, a) ==
    IF audit = <<>> THEN <<>>
    ELSE (IF FilterKeeps(Head(audit), a) THEN <<Head(audit)>> ELSE <<>>)
         \o FilterLoop(Tail(audit), a)

\* the dedupe loop of main: the first record of each (author.strip(), text.strip())
RECURSIVE FilterDedupe(_, _)
FilterDedupe(kept, seen) ==
    IF kept = <<>> THEN <<>>
    ELSE Let(<<Strip(Head(kept).author, SpaceSet), Strip(Head(kept).text, SpaceSet)>>,
             LAMBDA key :
                 IF key \in seen THEN FilterDedupe(Tail(kept), seen)
                 ELSE <<Head(kept)>> \o FilterDedupe(Tail(kept), seen \cup {key}))

\* the list written to --out
PwaOf(deduped) ==
    [n \in 1..Len(deduped) |-> [author |-> deduped[n].author, text |-> deduped[n].text]]

\* ---- the filter as a state machine: script = "filter" ----
\* outfile holds the two files: the list of --out and the list of --out-audit

FilterRecords ==
    {[author |-> "Booth", text |-> "God is love.", method |-> "colon"],
     [author |-> "Booth ", text |-> " God is love.", method |-> "quoted"],
     [author |-> "Unknown", text |-> "Faith saves \n", method |-> "colon"],
     [author |-> "", text |-> "Pray", method |-> "quoted"],
     [author |-> "Booth", text |-> "John 3:16 KJV", method |-> "colon"],
     [author |-> "Unknown", text |-> "  ", method |-> "quoted"]}

FilterArgs == [min_len : {5}, max_len : {12}, only_method : {"", "colon"}, drop_unknown : BOOLEAN]

InitFilter ==
    /\ script = "filter"
    /\ pc = "input"
    /\ args \in FilterArgs
    /\ data \in SeqsUpTo(FilterRecords, MaxItems)
    /\ Idle

\* main of the filter, from the loop over audit to the two files
FilterMain ==
    /\ script = "filter"
    /\ pc = "input"
    /\ \E deduped \in {FilterDedupe(FilterLoop(data, args), {})} :
           outfile' = <<PwaOf(deduped), deduped>>
    /\ pc' = "done"
    /\ UNCHANGED <<script, args, data, minerVars, cleanerVars, reviewVars, kept_before,
                   result, env, net, collectVars, wideVars, handbookVars>>

SpecFilter == InitFilter /\ [][FilterMain]_vars

(***************************************************************************)
(* mine_handbook_quotes.py                                                 *)
(*                                                                         *)
(* A QuoteCandidate is [doctrine, author, text, source_title, source_year, *)
(* source_file, page, kind, confidence], the confidence in hundredths.     *)
(***************************************************************************)

\* the value of a string of digits
RECURSIVE IntOf(_)
IntOf(ds) ==
    IF ds = "" THEN 0
    ELSE 10 * IntOf(SubSeq(ds, 1, Len(ds) - 1))
         + (CHOOSE v \in 0..9 : Chr(Digits, v + 1) = Chr(ds, Len(ds)))

\* the most digits of a chapter number
ChapterDigits == 2

\* CHAPTER_2010_RE matched at i: \bChapter\s+(\d{1,2})\b, ignoring case; group 1, or ""
Chapter2010At(s, i) ==
    IF WordBoundary(s, i) /\ i + 6 <= Len(s) /\ Lower(SubSeq(s, i, i + 6)) = "chapter"
    THEN Let(WsEnd(s, i + 7), LAMBDA w :
             Let(RunEnd(s, w + 1, DigitSet), LAMBDA e :
                 IF w >= i + 7 /\ e >= w + 1 /\ e - w <= ChapterDigits /\ WordBoundary(s, e + 1)
                 THEN SubSeq(s, w + 1, e)
                 ELSE ""))
    ELSE ""

\* CHAPTER_2010_RE.search(s): group 1 of the first match, or "" when there is none
CHAPTER_2010_RE(s) ==
    Let({i \in 1..Len(s) : Chapter2010At(s, i) /= ""}, LAMBDA hits :
        IF hits = {} THEN "" ELSE Chapter2010At(s, Min(hits)))

\* CHAPTER_ROMAN_1923_RE.search(s): the pattern is that of CHAPTER_RE of the 1923 miner
CHAPTER_ROMAN_1923_RE(s) == CHAPTER_RE(s)

\* ROMAN_MAP.get(roman, default): the table is ROMAN_TO_INT of the 1923 miner
ROMAN_MAP(roman, default) == ROMAN_TO_INT(roman, default)

\* CHAPTER_1923_TO_DOCTRINE.get(chapter, default)
CHAPTER_1923_TO_DOCTRINE(chapter, default) ==
    IF CHAPTER_TO_DOCTRINE_DEFAULT(chapter) /= None
    THEN CHAPTER_TO_DOCTRINE_DEFAULT(chapter) ELSE default

\* guess_source_meta(pdf_path): <<title, year>>; the stem of the name is its title
\* when the name tells no edition
guess_source_meta(name) ==
    IF Contains(Lower(name), "2010") \/ Contains(Lower(name), "english handbook")
    THEN <<"The Salvation Army Handbook of Doctrine", 2010>>
    ELSE IF Contains(Lower(name), "handbookofsalvat") \/ Contains(Lower(name), "1923")
    THEN <<"Handbook of Salvation Army Doctrine", 1923>>
    ELSE <<SubSeq(name, 1, Len(name) - 4), None>>

\* the chapter a page leaves in a 1923 PDF: that of its roman marker, if it has one
\* the table knows
ChapterRomanOf(page_text, last_roman) ==
    IF CHAPTER_ROMAN_1923_RE(page_text) /= ""
    THEN ROMAN_MAP(Upper(CHAPTER_ROMAN_1923_RE(page_text)), last_roman)
    ELSE last_roman

\* guess_doctrine_from_page(pdf_title, pdf_year, page_text, last_doctrine,
\* last_chapter_roman): <<doctrine, chapter_roman>>
guess_doctrine_from_page(pdf_year, page_text, last_doc, last_roman) ==
    IF /\ CHAPTER_2010_RE(page_text) /= ""
       /\ 1 <= IntOf(CHAPTER_2010_RE(page_text))
       /\ IntOf(CHAPTER_2010_RE(page_text)) <= NumDoctrines
    THEN <<IntOf(CHAPTER_2010_RE(page_text)), last_roman>>
    ELSE Let(ChapterRomanOf(page_text, last_roman), LAMBDA chapter_roman :
             IF pdf_year = 1923 /\ chapter_roman /= None
             THEN <<CHAPTER_1923_TO_DOCTRINE(chapter_roman, last_doc), chapter_roman>>
             ELSE <<last_doc, chapter_roman>>)

\* a compatibility character of the texts, as the model writes it: the ligature fi
LIGATURE_FI == "#"

\* normalize_text(s) of this script: NFKC, which of the characters of the model
\* changes the ligature only, then whitespace collapsed and stripped
nfkc_normalize_text(s) ==
    Strip(CollapseWS(ReplaceChar(s, LIGATURE_FI, "fi")), SpaceSet)

\* [normalize_text(x) for x in txt.splitlines() if normalize_text(x)]
NormalLines(txt) ==
    SelectSeq([n \in 1..Len(SplitLines(txt)) |-> nfkc_normalize_text(SplitLines(txt)[n])],
              NonEmpty)

\* a book of SCRIPTURE_REF_RE at i of the lowercased text t, with \b after it: the
\* numeral of a numbered book is followed by \s*
NumberedBookAt(t, i) ==
    \E n \in 1..Len(BOOKS) :
        IF Chr(BooksLower[n], 1) \in DigitSet
        THEN /\ i <= Len(t)
             /\ Chr(t, i) = Chr(BooksLower[n], 1)
             /\ StartsAt(t, WsEnd(t, i + 1) + 1, From(BooksLower[n], 3))
             /\ WordBoundary(t, WsEnd(t, i + 1) + Len(BOOKS[n]) - 1)
        ELSE StartsAt(t, i, BooksLower[n]) /\ WordBoundary(t, i + Len(BOOKS[n]))

\* looks_like_scripture_heavy(s)
looks_like_scripture_heavy(s) ==
    Let(Lower(s), LAMBDA t :
        \E i \in 1..Len(s) : (WordBoundary(t, i) /\ NumberedBookAt(t, i)) \/ VerseRefAt(s, i))

TeachingWords ==
    <<"we believe", "therefore", "means", "signifies", "is the", "are the", "must", "cannot">>

DoctrineWords ==
    <<"holiness", "sanctif", "atonement", "grace", "faith", "repent", "justif", "regenerat",
      "resurrection", "judgment">>

TeachingBonus == 200
DoctrineBonus == 150
HeavyPenalty == 200
SentenceLengthPenalty == 100
SentenceShort == 80
SentenceLong == 320

\* score_sentence(s), in hundredths
score_sentence(s) ==
    (IF contains_any(s, TeachingWords) THEN TeachingBonus ELSE 0)
    + (IF contains_any(s, DoctrineWords) THEN DoctrineBonus ELSE 0)
    - (IF looks_like_scripture_heavy(s) THEN HeavyPenalty ELSE 0)
    - (IF Len(s) < SentenceShort THEN SentenceLengthPenalty ELSE 0)
    - (IF Len(s) > SentenceLong THEN SentenceLengthPenalty ELSE 0)

QuoteCandidate(doctrine, author, text, meta, source_file, page, kind, confidence) ==
    [doctrine |-> doctrine, author |-> author, text |-> text, source_title |-> meta[1],
     source_year |-> meta[2], source_file |-> source_file, page |-> page, kind |-> kind,
     confidence |-> confidence]

\* the shortest and the longest quoted block, and the reach of the look for an author
QuotedMin == 40
QuotedMax == 400
TailLen == 220

\* QUOTED_BLOCK_RE matched with its opening quote at p: the closing quote is the
\* first one after p, with 40 to 400 characters between the two; its position, or 0
QuotedBlockAt(joined, p) ==
    IF p <= Len(joined) /\ Chr(joined, p) \in {LDQUO, "\""}
    THEN Let(SkipIn(joined, p + 1, CharsOf(joined) \ {RDQUO, "\""}), LAMBDA q :
             IF q <= Len(joined) /\ q - p - 1 >= QuotedMin /\ q - p - 1 <= QuotedMax
             THEN q ELSE 0)
    ELSE 0

\* the words an author line has after its first
MoreAuthorWords == 3

\* [A-Z][A-Za-z]+ matched at i: its end, or 0
AuthorWordEnd(s, i) ==
    IF i + 1 <= Len(s) /\ Chr(s, i) \in UpperSet /\ Chr(s, i + 1) \in UpperSet \cup LowerSet
    THEN RunEnd(s, i + 1, UpperSet \cup LowerSet) ELSE 0

\* (?:\s+[A-Z][A-Za-z]+){0,more} matched after position e, as far as it can go
RECURSIVE AuthorEnd(_, _, _)
AuthorEnd(s, e, more) ==
    IF more > 0 /\ WsEnd(s, e + 1) > e /\ AuthorWordEnd(s, WsEnd(s, e + 1) + 1) > 0
    THEN AuthorEnd(s, AuthorWordEnd(s, WsEnd(s, e + 1) + 1), more - 1)
    ELSE e

\* AUTHOR_LINE_RE.match(line) for a line normalize_text returned: group 1, or ""
AUTHOR_LINE_RE(line) ==
    IF AuthorWordEnd(line, 1) > 0
       /\ AuthorEnd(line, AuthorWordEnd(line, 1), MoreAuthorWords) = Len(line)
    THEN line ELSE ""

\* the author of the quoted block that ends at q
AuthorOfBlock(joined, q, source_title) ==
    Let(NormalLines(Slice(joined, q + 1, q + TailLen)), LAMBDA tail_lines :
        IF tail_lines /= <<>> /\ AUTHOR_LINE_RE(tail_lines[1]) /= ""
        THEN AUTHOR_LINE_RE(tail_lines[1]) ELSE source_title)

ConfidenceNamed == 75
ConfidenceUnnamed == 55

\* the loop over QUOTED_BLOCK_RE.finditer(joined), from position i on
RECURSIVE QuotedCandidates(_, _, _, _, _, _, _)
QuotedCandidates(joined, i, doctrine, meta, source_file, page, a) ==
    Let({p \in i..Len(joined) : QuotedBlockAt(joined, p) > 0}, LAMBDA opens :
        IF opens = {} THEN <<>>
        ELSE Let(QuotedBlockAt(joined, Min(opens)), LAMBDA q :
             Let(nfkc_normalize_text(SubSeq(joined, Min(opens) + 1, q - 1)), LAMBDA qt :
             Let(AuthorOfBlock(joined, q, meta[1]), LAMBDA author :
                 (IF a.min_len <= Len(qt) /\ Len(qt) <= a.max_len
                  THEN <<QuoteCandidate(doctrine, author, qt, meta, source_file, page, "quoted",
                                        IF author /= meta[1] THEN ConfidenceNamed
                                        ELSE ConfidenceUnnamed)>>
                  ELSE <<>>)
                 \o QuotedCandidates(joined, q + 1, doctrine, meta, source_file, page, a)))))

\* the sentences of the paragraphs, the lines of joined: none of them is empty
RECURSIVE SentencesOf(_)
SentencesOf(lines) ==
    IF lines = <<>> THEN <<>>
    ELSE SENT_SPLIT_RE(nfkc_normalize_text(Head(lines))) \o SentencesOf(Tail(lines))

SentenceThreshold == 175
ConfidenceMax == 90
ConfidenceBase == 50

\* min(0.9, 0.5 + sc / 4.0) in hundredths; a score that passes the threshold gives
\* more than 0.9 before the cap, so rounding the quarter down changes nothing
SentenceConfidence(sc) ==
    IF ConfidenceBase + sc \div 4 < ConfidenceMax THEN ConfidenceBase + sc \div 4
    ELSE ConfidenceMax

\* the loop over the sentences
RECURSIVE SentenceCandidates(_, _, _, _, _, _)
SentenceCandidates(sentences, doctrine, meta, source_file, page, a) ==
    IF sentences = <<>> THEN <<>>
    ELSE Let(nfkc_normalize_text(Head(sentences)), LAMBDA sn :
             (IF a.min_len <= Len(sn) /\ Len(sn) <= a.max_len
                 /\ score_sentence(sn) >= SentenceThreshold
              THEN <<QuoteCandidate(doctrine, meta[1], sn, meta, source_file, page, "sentence",
                                    SentenceConfidence(score_sentence(sn)))>>
              ELSE <<>>)
             \o SentenceCandidates(Tail(sentences), doctrine, meta, source_file, page, a))

\* extract_candidates_from_page(page_text, doctrine, source_title, source_year,
\* source_file, page_number, min_len, max_len)
page_candidates(page_text, doctrine, meta, source_file, page, a) ==
    IF Strip(page_text, SpaceSet) = "" THEN <<>>
    ELSE Let(NormalLines(page_text), LAMBDA lines :
             QuotedCandidates(Join(lines, "\n"), 1, doctrine, meta, source_file, page, a)
             \o SentenceCandidates(SentencesOf(lines), doctrine, meta, source_file, page, a))

\* the key of dedupe_candidates: re.sub(r"[^a-z0-9 ]+", "", key) takes the other
\* characters out
CandidateKey(text) ==
    Let(Lower(nfkc_normalize_text(text)), LAMBDA key :
        Strip(CollapseWS(CollapseRuns(key, CharsOf(key) \ (AlnumLower \cup {" "}), "")),
              SpaceSet))

\* the sort key (-x.confidence, x.page, x.kind) of a before that of b
ConfidenceBefore(a, b) ==
    \/ a.confidence > b.confidence
    \/ a.confidence = b.confidence /\ a.page < b.page
    \/ a.confidence = b.confidence /\ a.page = b.page /\ a.kind = "quoted" /\ b.kind = "sentence"

\* the sort key (-x.confidence, x.page) of a before that of b
ConfidencePageBefore(a, b) ==
    a.confidence > b.confidence \/ (a.confidence = b.confidence /\ a.page < b.page)

\* sorted(items, key=...), a stable sort; kinds tells whether the kind is in the key
RECURSIVE SortByConfidence(_, _)
SortByConfidence(items, kinds) ==
    IF items = <<>> THEN <<>>
    ELSE Let(SortByConfidence(SubSeq(items, 1, Len(items) - 1), kinds), LAMBDA sorted :
         Let(items[Len(items)], LAMBDA c :
         Let({n \in 1..Len(sorted) :
                  IF kinds THEN ConfidenceBefore(c, sorted[n])
                  ELSE ConfidencePageBefore(c, sorted[n])}, LAMBDA after :
             IF after = {} THEN Append(sorted, c)
             ELSE SubSeq(sorted, 1, Min(after) - 1) \o <<c>>
                  \o SubSeq(sorted, Min(after), Len(sorted)))))

\* the loop of dedupe_candidates over the sorted items
RECURSIVE DedupeCandidatesLoop(_, _)
DedupeCandidatesLoop(sorted, seen) ==
    IF sorted = <<>> THEN <<>>
    ELSE Let(CandidateKey(Head(sorted).text), LAMBDA key :
             IF key \in seen THEN DedupeCandidatesLoop(Tail(sorted), seen)
             ELSE <<Head(sorted)>> \o DedupeCandidatesLoop(Tail(sorted), seen \cup {key}))

\* dedupe_candidates(items)
dedupe_candidates(items) == DedupeCandidatesLoop(SortByConfidence(items, TRUE), {})

\* the doctrines of the items in the order of their first item: the keys of the dict
\* of cap_per_doctrine, None standing for "unknown"
RECURSIVE DoctrinesInOrder(_, _)
DoctrinesInOrder(items, seen) ==
    IF items = <<>> THEN <<>>
    ELSE IF Head(items).doctrine \in seen THEN DoctrinesInOrder(Tail(items), seen)
    ELSE <<Head(items).doctrine>>
         \o DoctrinesInOrder(Tail(items), seen \cup {Head(items).doctrine})

\* the second loop of cap_per_doctrine over the keys ds
RECURSIVE CapLoop(_, _, _)
CapLoop(items, ds, max_per_doctrine) ==
    IF ds = <<>> THEN <<>>
    ELSE Prefix(SortByConfidence(BucketOf(items, Head(ds)), FALSE), max_per_doctrine)
         \o CapLoop(items, Tail(ds), max_per_doctrine)

\* cap_per_doctrine(items, max_per_doctrine)
cap_per_doctrine(items, max_per_doctrine) ==
    CapLoop(items, DoctrinesInOrder(items, {}), max_per_doctrine)

\* the list written to --out
MinimalOf(items) ==
    [n \in 1..Len(items) |->
        [author |-> items[n].author, text |-> items[n].text,
         source |-> [title |-> items[n].source_title, year |-> items[n].source_year,
                     page |-> items[n].page, file |-> items[n].source_file,
                     doctrine |-> items[n].doctrine]]]

\* ---- the miner of both handbooks as a state machine: script = "handbook" ----
\* data holds, for each --pdf, the name of the file and the pages extract_pages_text
\* returns; nth counts the PDFs done and pageno the pages done of the current PDF;
\* result holds what guess_doctrine_from_page returned for each page so far

Pdf1923 == "handbookofsalvat00unse.pdf"
Pdf2010 == "English Handbook of Doctrine web.pdf"
PdfOther == "orders.pdf"

PageRomanTwo == "CHAPTER II\nWe believe in grace."
PageArabicFive == "Chapter 5\nWe believe in-grace."
PageNoMarker ==
    "We believe in grace!\n" \o LDQUO \o "Holiness is the gi" \o LIGATURE_FI
    \o "t of God to all who believe it." \o RDQUO \o "\nWilliam Booth"
PageOutOfRange == "chapter xii and Chapter 12.  Faith means trust (1  John 4:16)."

HandbookPages == {PageRomanTwo, PageArabicFive, PageNoMarker, PageOutOfRange}

\* the most pages of a PDF, and of each PDF when there are two
MaxPdfPages == 3
MaxPagesOfTwo == 1

PdfNames == {Pdf1923, Pdf2010, PdfOther}

PdfsOf(n) == [name : PdfNames, pages : SeqsUpTo(HandbookPages, n)]

HandbookInputs ==
    {<<f>> : f \in PdfsOf(MaxPdfPages)}
    \cup {<<p[1], p[2]>> : p \in PdfsOf(MaxPagesOfTwo) \X PdfsOf(MaxPagesOfTwo)}

\* out "" stands for no --out
HandbookArgs ==
    [min_len : {15}, max_len : {60}, max_per_doctrine : {1, 80}, out : {"", "quotes.json"}]

InitHandbook ==
    /\ script = "handbook"
    /\ pc = "pages"
    /\ args \in HandbookArgs
    /\ data \in HandbookInputs
    /\ Idle

\* one round of the loop over the pages of a PDF
HandbookPage ==
    /\ script = "handbook"
    /\ pc = "pages"
    /\ nth < Len(data)
    /\ pageno < Len(data[nth + 1].pages)
    /\ \E page_text \in {data[nth + 1].pages[pageno + 1]},
          meta \in {guess_source_meta(data[nth + 1].name)} :
           \E guess \in {guess_doctrine_from_page(meta[2], page_text, last_doctrine,
                                                  last_chapter_roman)} :
               /\ last_doctrine' = guess[1]
               /\ last_chapter_roman' = guess[2]
               /\ result' = Append(result, [pdf |-> nth + 1, page |-> pageno + 1,
                                            text |-> page_text, doctrine |-> guess[1]])
               /\ all_candidates' = all_candidates
                      \o page_candidates(page_text, guess[1], meta, data[nth + 1].name,
                                         pageno + 1, args)
    /\ pageno' = pageno + 1
    /\ UNCHANGED <<script, pc, args, data, raw, current_chapter, all_cands, selected,
                   cleanerVars, reviewVars, kept_before, ioVars, collectVars, wideVars>>

\* the end of a round of the loop over the PDFs: the next PDF starts with no doctrine
\* and no chapter
HandbookNextPdf ==
    /\ script = "handbook"
    /\ pc = "pages"
    /\ nth < Len(data)
    /\ pageno = Len(data[nth + 1].pages)
    /\ nth' = nth + 1
    /\ pageno' = 0
    /\ last_doctrine' = None
    /\ last_chapter_roman' = None
    /\ UNCHANGED <<script, pc, args, data, raw, current_chapter, all_cands, selected,
                   cleanerVars, reviewVars, kept_before, result, ioVars, all_quotes, wideVars,
                   all_candidates>>

\* dedupe_candidates, cap_per_doctrine and the files, after the loop over the PDFs
HandbookWrite ==
    /\ script = "handbook"
    /\ pc = "pages"
    /\ nth = Len(data)
    /\ all_candidates' = cap_per_doctrine(dedupe_candidates(all_candidates),
                                          args.max_per_doctrine)
    /\ outfile' = IF args.out /= "" THEN <<all_candidates', MinimalOf(all_candidates')>>
                  ELSE <<all_candidates'>>
    /\ pc' = "done"
    /\ UNCHANGED <<script, args, data, minerVars, cleanerVars, reviewVars, kept_before,
                   result, env, net, collectVars, wideVars, last_doctrine,
                   last_chapter_roman>>

SpecHandbook == InitHandbook /\ [][HandbookPage \/ HandbookNextPdf \/ HandbookWrite]_vars

\* ---- every script and function together ----

Init ==
    \/ InitMiner \/ InitSelect \/ InitDedupe \/ InitCleaner \/ InitReview
    \/ InitKeys \/ InitNormalize \/ InitStrip \/ InitWindows
    \/ InitSplit \/ InitFinish \/ InitExtract \/ InitCollect \/ InitWide

Next ==
    \/ \E page_text \in PageTexts : MinePage(page_text)
    \/ MineFinish
    \/ SelectBalanced
    \/ Dedupe
    \/ DedupeReordered
    \/ CleanerMain
    \/ CleanerReordered
    \/ ReviewMain
    \/ ReviewReordered
    \/ EditText
    \/ Normalize
    \/ StripBoilerplate
    \/ Windows
    \/ SplitBlocks \/ Finish \/ Extract
    \/ RobotsCheck \/ FetchAndExtract \/ WriteQuotes
    \/ WideLookup \/ WideExtend \/ WideFetch \/ WideWrite
    \/ FilterMain
    \/ HandbookPage \/ HandbookNextPdf \/ HandbookWrite

Spec == Init /\ [][Next]_vars

(***************************************************************************)
(* Properties                                                              *)
(***************************************************************************)

\* the number of records of doctrine d in a list
Count(seq, d) == Cardinality({n \in 1..Len(seq) : seq[n].doctrine = d})

MinOf(a, b) == IF a < b THEN a ELSE b

\* C1: select_balanced returns at most total records, for every candidate list and
\* every total >= 0.
C1_AtMostTotal ==
    (script = "select" /\ pc = "done") => Len(selected) <= args.target

\* select_balanced had more candidates than total > 0 and returned exactly total
C1_Witness ==
    /\ script = "select"
    /\ pc = "done"
    /\ args.target > 0
    /\ Len(data) > args.target
    /\ Len(selected) = args.target

\* C2: with base = floor(total / 11), every doctrine d of 1..11 contributes at least
\* min(base, number of candidates of doctrine d) records to the result of
\* select_balanced.
C2_FloorAllocation ==
    (script = "select" /\ pc = "done") =>
        \A d \in 1..11 :
            Count(selected, d) >= MinOf(args.target \div 11, Count(data, d))

\* base >= 1, every doctrine has at least base candidates and one has more, and every
\* doctrine contributed at least base
C2_Witness ==
    /\ script = "select"
    /\ pc = "done"
    /\ args.target \div 11 >= 1
    /\ \A d \in 1..11 : Count(data, d) >= args.target \div 11
    /\ \E d \in 1..11 : Count(data, d) > args.target \div 11
    /\ \A d \in 1..11 : Count(selected, d) >= args.target \div 11

\* no two positions of a list of keys hold the same key
DistinctKeys(keys) == \A i, j \in 1..Len(keys) : keys[i] = keys[j] => i = j

DedupeKeys(recs) == [n \in 1..Len(recs) |-> DedupeKey(recs[n].text)]
CleanKeys(recs) == [n \in 1..Len(recs) |-> make_key(recs[n].text)]
ReviewKeys(rows) == [n \in 1..Len(rows) |-> norm_key(rows[n].text)]

\* C3: no two records of the output of dedupe, of the cleaned list of the cleaner, and
\* of the safe, flagged and dropped lists of the review taken together have the same
\* canonical key (the key of that script), whatever the input and its order.
C3_UniqueKeys ==
    pc = "done" =>
        /\ script = "dedupe" => DistinctKeys(DedupeKeys(all_cands))
        /\ script = "cleaner" => DistinctKeys(CleanKeys(cleaned))
        /\ script = "review" => DistinctKeys(ReviewKeys(safe \o flagged \o dropped))

\* dedupe has run on two candidates of different text and the same key, in both
\* orders, and kept one
C3_Witness ==
    /\ script = "dedupe"
    /\ pc = "done"
    /\ kept_before /= <<>>
    /\ Len(data) = 2
    /\ data[1].text /= data[2].text
    /\ DedupeKey(data[1].text) = DedupeKey(data[2].text)
    /\ Len(all_cands) = 1

\* record k is one of recs, and no record of recs with the key of k has a higher
\* score, or the same score and a smaller page
BestOfKey(k, recs, keys, key, Page(_)) ==
    /\ \E n \in 1..Len(recs) : recs[n] = k
    /\ \A n \in 1..Len(recs) :
           keys[n] = key =>
               \/ recs[n].score < k.score
               \/ recs[n].score = k.score /\ Page(recs[n]) >= Page(k)

PageOf(rec) == rec.page

\* a missing page counts as 10^9
PageOrBillion(rec) == IF rec.page = None THEN 1000000000 ELSE rec.page

\* every kept record is the best of its key among the input records
KeptAreBest(kept, keptKeys, recs, keys, Page(_)) ==
    \A m \in 1..Len(kept) : BestOfKey(kept[m], recs, keys, keptKeys[m], Page)

\* every key of wanted is the key of a kept record
KeysKept(wanted, keptKeys) ==
    \A key \in wanted : \E m \in 1..Len(keptKeys) : keptKeys[m] = key

KeySetOf(keys) == {keys[n] : n \in 1..Len(keys)}

\* C4 as stated: for each canonical key of the input, dedupe and the dedupe step of the
\* cleaner keep a record of that key, and the record kept has the highest score of the
\* input records of that key and, among those of the highest score, the smallest page
\* (in the cleaner a missing page counts as 10^9).
C4_Representative ==
    pc = "done" =>
        /\ script = "dedupe" =>
               /\ KeysKept(KeySetOf(DedupeKeys(data)), DedupeKeys(all_cands))
               /\ KeptAreBest(all_cands, DedupeKeys(all_cands), data, DedupeKeys(data), PageOf)
        /\ script = "cleaner" =>
               /\ KeysKept(KeySetOf(CleanKeys(produced)), CleanKeys(cleaned))
               /\ KeptAreBest(cleaned, CleanKeys(cleaned), produced, CleanKeys(produced),
                              PageOrBillion)

\* C4 amended: as C4, but in the cleaner for each non-empty canonical key only: the
\* cleaner keeps no record whose key is empty.
C4_RepresentativeOfNonEmptyKey ==
    pc = "done" =>
        /\ script = "dedupe" =>
               /\ KeysKept(KeySetOf(DedupeKeys(data)), DedupeKeys(all_cands))
               /\ KeptAreBest(all_cands, DedupeKeys(all_cands), data, DedupeKeys(data), PageOf)
        /\ script = "cleaner" =>
               /\ KeysKept(KeySetOf(CleanKeys(produced)) \ {""}, CleanKeys(cleaned))
               /\ "" \notin KeySetOf(CleanKeys(cleaned))
               /\ KeptAreBest(cleaned, CleanKeys(cleaned), produced, CleanKeys(produced),
                              PageOrBillion)

\* the cleaner met a record without a page and then one of the same key and score with
\* a page, and kept the second
C4_Witness ==
    /\ script = "cleaner"
    /\ pc = "done"
    /\ Len(produced) = 2
    /\ make_key(produced[1].text) = make_key(produced[2].text)
    /\ produced[1].score = produced[2].score
    /\ produced[1].page = None
    /\ produced[2].page /= None
    /\ cleaned = <<produced[2]>>

\* the records of a list as (text, page, score)
RecSet(recs) == {<<recs[n].text, recs[n].page, recs[n].score>> : n \in 1..Len(recs)}

\* the records of a list as (key, page, score)
KeyedSet(recs, keys) == {<<keys[n], recs[n].page, recs[n].score>> : n \in 1..Len(recs)}

\* two records of the same key, score and page whose texts differ
TextTie(recs, keys) ==
    \E i, j \in 1..Len(recs) :
        /\ keys[i] = keys[j]
        /\ recs[i].score = recs[j].score
        /\ recs[i].page = recs[j].page
        /\ recs[i].text /= recs[j].text

\* C5 as stated: dedupe returns the same set of records (text, page, score) for every
\* order of the same candidates, also when two candidates of the same key and different
\* text have the same score and page; and so does the dedupe step of the cleaner.
C5_OrderIndependent ==
    (pc = "done" /\ kept_before /= <<>>) =>
        /\ script = "dedupe" => RecSet(all_cands) = RecSet(kept_before[1])
        /\ script = "cleaner" => RecSet(cleaned) = RecSet(kept_before[1])

\* C5 amended: for every order of the same candidates dedupe and the dedupe step of the
\* cleaner keep the same set of (key, page, score), and the same set of records
\* (text, page, score) unless two records of the same key and different text have the
\* same score and page: of those the one that comes first in the input is kept.
C5_OrderIndependentUpToTies ==
    (pc = "done" /\ kept_before /= <<>>) =>
        /\ script = "dedupe" =>
               /\ KeyedSet(all_cands, DedupeKeys(all_cands))
                      = KeyedSet(kept_before[1], DedupeKeys(kept_before[1]))
               /\ ~TextTie(data, DedupeKeys(data)) =>
                      RecSet(all_cands) = RecSet(kept_before[1])
               /\ \A m \in 1..Len(all_cands) :
                      \A n \in 1..Len(data) :
                          (/\ DedupeKey(data[n].text) = DedupeKey(all_cands[m].text)
                           /\ data[n].score = all_cands[m].score
                           /\ data[n].page = all_cands[m].page
                           /\ data[n].text /= all_cands[m].text)
                          => \E f \in 1..(n - 1) : data[f] = all_cands[m]
        /\ script = "cleaner" =>
               /\ KeyedSet(cleaned, CleanKeys(cleaned))
                      = KeyedSet(kept_before[1], CleanKeys(kept_before[1]))
               /\ ~TextTie(produced, CleanKeys(produced)) =>
                      RecSet(cleaned) = RecSet(kept_before[1])

\* dedupe has run on two candidates of the same key, score and page in both orders, and
\* the two runs kept records of different text
C5_Witness ==
    /\ script = "dedupe"
    /\ pc = "done"
    /\ kept_before /= <<>>
    /\ Len(all_cands) = 1
    /\ Len(kept_before[1]) = 1
    /\ all_cands[1].text /= kept_before[1][1].text
    /\ all_cands[1].page = kept_before[1][1].page
    /\ all_cands[1].score = kept_before[1][1].score

\* every record of recs has a non-empty text of a length within min_len..max_len
LengthsWithin(recs, min_len, max_len) ==
    \A n \in 1..Len(recs) :
        /\ recs[n].text /= ""
        /\ min_len <= Len(recs[n].text)
        /\ Len(recs[n].text) <= max_len

\* C6: every candidate the miner emits and every record the cleaner produces has a
\* non-empty text with min_len <= len(text) <= max_len for the configured limits.
C6_LengthInvariant ==
    /\ script = "miner" => LengthsWithin(all_cands, args.min_len, args.max_len)
    /\ script = "cleaner" =>
           /\ LengthsWithin(produced, args.min_len, args.max_len)
           /\ LengthsWithin(cleaned, args.min_len, args.max_len)

\* the miner has read a page whose two sentences pass the length filter one by one and
\* whose window of both is too long, and emitted the two
C6_Witness ==
    /\ script = "miner"
    /\ pc = "pages"
    /\ pageno = 1
    /\ raw = PageGod
    /\ args.max_len = 60
    /\ args.max_sents = 2
    /\ Len(all_cands) = 2

\* C7: every candidate the miner emits has a score >= 1.8 and a doctrine in 1..11; no
\* candidate is emitted for a page whose current chapter is undetermined or chapter I.
C7_ClassifierRejection ==
    script = "miner" =>
        /\ \A n \in 1..Len(all_cands) :
               /\ all_cands[n].score >= 180
               /\ all_cands[n].doctrine \in 1..11
               /\ all_cands[n].chapter \notin {None, 1}
        /\ (pageno >= 1 /\ current_chapter \in {None, 1}) =>
               \A n \in 1..Len(all_cands) : all_cands[n].page /= pageno

\* the miner emitted candidates from its first page and then read a page of chapter I
\* with a sentence of belief on it
C7_Witness ==
    /\ script = "miner"
    /\ pc = "pages"
    /\ pageno = 2
    /\ raw = PageIntro
    /\ current_chapter = 1
    /\ Len(all_cands) >= 1

\* the bucket the decision table gives a list of flags
TableDrop(flags) ==
    /\ Has(flags, "incomplete_or_fragment")
    /\ Has(flags, "ocr_header") \/ Has(flags, "structure_marker")

TableFlag(flags) ==
    \/ Has(flags, "polemical_language")
    \/ Has(flags, "sensitive_group_term")
    \/ Has(flags, "needs_context_opening")
    \/ Has(flags, "ocr_header")
    \/ Has(flags, "structure_marker")

\* C8: classify gives every item exactly one bucket: drop iff the flags hold
\* incomplete_or_fragment and one of ocr_header, structure_marker; otherwise flag iff
\* they hold one of polemical_language, sensitive_group_term, needs_context_opening,
\* ocr_header, structure_marker; otherwise safe.  The other flags change nothing.
C8_DecisionTable ==
    (script = "review" /\ pc = "done") =>
        /\ Len(safe) + Len(flagged) + Len(dropped) + dup_count = Len(data)
        /\ \A n \in 1..Len(dropped) : TableDrop(dropped[n].flags)
        /\ \A n \in 1..Len(flagged) :
               ~TableDrop(flagged[n].flags) /\ TableFlag(flagged[n].flags)
        /\ \A n \in 1..Len(safe) :
               ~TableDrop(safe[n].flags) /\ ~TableFlag(safe[n].flags)

\* the review dropped one item and flagged another that is incomplete too
C8_Witness ==
    /\ script = "review"
    /\ pc = "done"
    /\ Len(dropped) = 1
    /\ Len(flagged) = 1
    /\ Has(flagged[1].flags, "incomplete_or_fragment")

\* C9 as stated: an incomplete record is dropped when it also has a structural marker
\* (a header marker counted as one) and flagged otherwise; it is never safe.
C9_IncompleteNeverSafe ==
    (script = "review" /\ pc = "done") =>
        /\ \A n \in 1..Len(safe) : ~Has(safe[n].flags, "incomplete_or_fragment")
        /\ \A n \in 1..Len(flagged) :
               Has(flagged[n].flags, "incomplete_or_fragment") =>
                   ~Has(flagged[n].flags, "structure_marker")
                   /\ ~Has(flagged[n].flags, "ocr_header")
        /\ \A n \in 1..Len(dropped) :
               Has(dropped[n].flags, "incomplete_or_fragment") =>
                   Has(dropped[n].flags, "structure_marker")
                   \/ Has(dropped[n].flags, "ocr_header")

\* C10 as stated: on a page of the Bible chapter, with min_len <= 90 <= max_len, the
\* sentence of 90 characters with "We believe", "Scriptures" and "revelation" scores at
\* least 1.8 and is emitted; "See Romans 8:1 for details." is not emitted.
C10_ScoringScenario ==
    (/\ script = "miner"
     /\ pc = "pages"
     /\ raw = PageBible
     /\ current_chapter = 2
     /\ args.min_len <= 90
     /\ 90 <= args.max_len) =>
        /\ Len(BibleSentence) = 90
        /\ score_excerpt(doctrine_from_chapter_and_text(current_chapter, BibleSentence),
                         BibleSentence) >= 180
        /\ \E n \in 1..Len(all_cands) :
               /\ all_cands[n].text = BibleSentence
               /\ all_cands[n].page = pageno
        /\ \A n \in 1..Len(all_cands) : all_cands[n].text /= ReferenceSentence

\* the number of positions of a list that hold the record r
Occ(seq, r) == Cardinality({n \in 1..Len(seq) : seq[n] = r})

\* the number of records the floor allocation takes: min(base, size) of every bucket
FloorTaken(cands, base) ==
    Cardinality({p \in (1..11) \X (1..base) : p[2] <= Count(cands, p[1])})

\* the candidates of the doctrines 1..11
InBuckets(cands) == {n \in 1..Len(cands) : cands[n].doctrine \in 1..11}

\* candidate c is not among the first k - 1 selected records
Unselected(c, cands, chosen, k) == Occ(cands, c) > Occ(SubSeq(chosen, 1, k - 1), c)

\* the positions of the result the remainder pass filled
RemainderPositions(cands, chosen, total) ==
    (FloorTaken(cands, total \div 11) + 1)..Len(chosen)

\* C11: every record select_balanced appends after the floor allocation has, when it
\* is chosen, the highest score of all candidates of the buckets not yet selected; so no
\* unselected candidate has a higher score than a record of the remainder pass.
C11_RemainderBest ==
    (script = "select" /\ pc = "done") =>
        \A candidates \in {InBuckets(data)} :
            \A k \in RemainderPositions(data, selected, args.target) :
                \A n \in candidates :
                    \/ data[n].score <= selected[k].score
                    \/ ~Unselected(data[n], data, selected, k)

\* the remainder pass chose at least two records and left a candidate unselected
C11_Witness ==
    /\ script = "select"
    /\ pc = "done"
    /\ Len(selected) >= FloorTaken(data, args.target \div 11) + 2
    /\ Len(selected) < Cardinality(InBuckets(data))
    /\ \E k \in RemainderPositions(data, selected, args.target) :
           selected[k].score > selected[Len(selected)].score

\* C12: for total >= 0 select_balanced ends, and returns exactly min(total, N) records,
\* N being the number of candidates of the doctrines 1..11; all N when total exceeds N.
C12_ResultSize ==
    (script = "select" /\ pc = "done") =>
        Len(selected) = MinOf(args.target, Cardinality(InBuckets(data)))

\* select_balanced was asked for more records than the buckets hold, one candidate
\* being of no doctrine, and returned all of the buckets
C12_Witness ==
    /\ script = "select"
    /\ pc = "done"
    /\ args.target > Cardinality(InBuckets(data))
    /\ Cardinality(InBuckets(data)) > 11
    /\ Len(data) > Cardinality(InBuckets(data))
    /\ Len(selected) = Cardinality(InBuckets(data))

\* C13 as stated: in the remainder pass of select_balanced, of the candidates of two
\* doctrines that have the same score the one of the smaller page is selected first.
C13_TieByPage ==
    (script = "select" /\ pc = "done") =>
        \A k \in RemainderPositions(data, selected, args.target) :
            \A n \in InBuckets(data) :
                (/\ Unselected(data[n], data, selected, k)
                 /\ data[n].doctrine /= selected[k].doctrine
                 /\ data[n].score = selected[k].score)
                => selected[k].page <= data[n].page

\* C14 as stated: a change of the case of a letter, and a punctuation mark added,
\* removed or changed at the start or end of a text or next to a space, changes none of
\* the three keys.
C14_KeyInsensitive ==
    (script = "keys" /\ pc = "done") => result[1].before = result[1].after

\* The keys differ only where C14 fails: the key of dedupe never changes, and the keys
\* of the cleaner and of the review change only when a punctuation mark is added or
\* removed inside a text in or next to the whitespace around a line-join marker.
KeysDifferOnlyNearMarkers ==
    (script = "keys" /\ pc = "done") =>
        /\ result[1].before.dedupe = result[1].after.dedupe
        /\ ~result[1].near => result[1].before = result[1].after

BeginsWithAnchor(out) == Len(out) >= 10 /\ Lower(SubSeq(out, 1, 10)) = "we believe"

\* what strip_boilerplate returned for text is a text that begins at the first anchor
\* of searched: it begins with the words of an anchor and is what the function returns
\* for searched without everything before its first anchor
BeginsAtFirstAnchor(searched, out) ==
    /\ BeginsWithAnchor(out)
    /\ out = strip_boilerplate(From(searched, Min(WE_BELIEVE_RE(searched))))

\* the scenario: the two headings before "We believe in one God." are removed
ScenarioOneGod ==
    data[1] = HeadingBible \o HeadingInspiration \o StatementOneGod
        => result[1].out = StatementOneGod

\* C16 as stated: whenever the text given to strip_boilerplate contains an anchor, the
\* text returned begins at the first anchor, everything before it removed, and the
\* scenario yields exactly "We believe in one God.".
C16_BeginsAtAnchor ==
    (script = "strip" /\ pc = "done") =>
        /\ WE_BELIEVE_RE(data[1]) /= {} => BeginsAtFirstAnchor(data[1], result[1].out)
        /\ ScenarioOneGod

\* C16 amended: whenever the text as normalize_text returns it contains an anchor, the
\* text returned begins at the first anchor of that normalized text, everything before
\* it removed, and the scenario yields exactly "We believe in one God.".
C16_BeginsAtAnchorOfNormalized ==
    (script = "strip" /\ pc = "done") =>
        /\ WE_BELIEVE_RE(normalize_text(data[1])) /= {}
               => BeginsAtFirstAnchor(normalize_text(data[1]), result[1].out)
        /\ ScenarioOneGod

\* the scenario has been stripped to its statement
C16_Witness ==
    /\ script = "strip"
    /\ pc = "done"
    /\ data[1] = HeadingBible \o HeadingInspiration \o StatementOneGod
    /\ Min(WE_BELIEVE_RE(normalize_text(data[1]))) > 1
    /\ result[1].out = StatementOneGod

QuoteChars == {"\"", "'"}

\* C17: the text strip_boilerplate returns neither begins nor ends with a quote
\* character.
C17_NoQuoteAtEnds ==
    (script = "strip" /\ pc = "done" /\ result[1].out /= "") =>
        /\ Chr(result[1].out, 1) \notin QuoteChars
        /\ Chr(result[1].out, Len(result[1].out)) \notin QuoteChars

\* the starts i (0-based) and widths w of the windows of n sentences, widths up to K
WindowPairs(n, K) == {p \in (0..(n - 1)) \X (1..K) : p[1] + p[2] <= n}

\* the place of the window p in the order by start and then by width
WindowPlace(p, n, K) ==
    Cardinality({q \in WindowPairs(n, K) : q[1] < p[1] \/ (q[1] = p[1] /\ q[2] < p[2])}) + 1

\* the sum over w in 1..K of max(0, n - w + 1)
RECURSIVE WindowCount(_, _)
WindowCount(n, K) ==
    IF K = 0 THEN 0 ELSE WindowCount(n, K - 1) + (IF n - K + 1 > 0 THEN n - K + 1 ELSE 0)

\* C18: for n sentences and max_sents = K the list returned holds the window of every
\* start i and width w in 1..K with i + w <= n, the sentences joined by a space, each
\* once and at its place in the order by start and then by width, and nothing else.
C18_AllWindowsInOrder ==
    (script = "windows" /\ pc = "done") =>
        /\ Len(result) = WindowCount(Len(data), args.max_sents)
        /\ \A p \in WindowPairs(Len(data), args.max_sents) :
               /\ WindowPlace(p, Len(data), args.max_sents) \in 1..Len(result)
               /\ result[WindowPlace(p, Len(data), args.max_sents)]
                      = Join(SubSeq(data, p[1] + 1, p[1] + p[2]), " ")

\* three sentences and widths up to 2 have given five windows, the second of them the
\* first two sentences; max_sents more than the sentences has given the windows there are
C18_Witness ==
    /\ script = "windows"
    /\ pc = "done"
    /\ \/ /\ args.max_sents = 2
          /\ data = <<"God is.", "We believe.", "Is it so?">>
          /\ Len(result) = 5
          /\ result[2] = "God is. We believe."
          /\ result[5] = "Is it so?"
       \/ /\ args.max_sents = 3
          /\ data = <<"God is.", "We believe.">>
          /\ result = <<"God is.", "God is. We believe.", "We believe.">>

\* the places in items of the first item of each key
FirstOfKey(items) ==
    Let(ReviewKeys(items), LAMBDA keys :
        {n \in 1..Len(items) : \A m \in 1..(n - 1) : keys[m] /= keys[n]})

\* the list the review puts a row of this bucket in
ListOf(bucket) ==
    IF bucket = "safe" THEN safe ELSE IF bucket = "flag" THEN flagged ELSE dropped

\* C19: the three lists and the count of skipped duplicates add up to the number of
\* input items; the first item of each key in input order is kept, in the list of its
\* own bucket, and no other row is kept, so every later item of a key is discarded
\* whatever its bucket.
C19_Accounting ==
    (script = "review" /\ pc = "done") =>
        /\ Len(safe) + Len(flagged) + Len(dropped) + dup_count = Len(data)
        /\ dup_count = Len(data) - Cardinality(FirstOfKey(data))
        /\ \A n \in FirstOfKey(data) :
               Let(classify(data[n]), LAMBDA c :
                   /\ Occ(ListOf(c.bucket), c.row) = 1
                   /\ Occ(safe \o flagged \o dropped, c.row) = 1)

\* the second item has the key of the first and another bucket, and was skipped
C19_Witness ==
    /\ script = "review"
    /\ pc = "done"
    /\ Len(data) = 2
    /\ norm_key(data[1].text) = norm_key(data[2].text)
    /\ classify(data[1]).bucket = "flag"
    /\ classify(data[2]).bucket = "drop"
    /\ dup_count = 1
    /\ Len(flagged) = 1
    /\ dropped = <<>>

\* the first CHAPTER marker of the page is a numeral of I..XI, in capitals or not
FirstMarkerRecognised(page_text) ==
    \E numeral \in {Upper(CHAPTER_RE(page_text))} :
        \E n \in 1..Len(RomanNumerals) : RomanNumerals[n] = numeral

\* the chapter of the first marker of the latest of the pages 1..i whose first marker is
\* recognised, None when there is no such page
CarriedChapter(pages, i) ==
    Let({j \in 1..i : FirstMarkerRecognised(pages[j])}, LAMBDA marked :
        IF marked = {} THEN None
        ELSE Let(Upper(CHAPTER_RE(pages[CHOOSE j \in marked : \A h \in marked : h <= j])),
                 LAMBDA numeral :
                     CHOOSE n \in 1..Len(RomanNumerals) : RomanNumerals[n] = numeral))

\* C20: after every page the current chapter, and the chapter of every candidate of a
\* page i, is the chapter of the first marker of the latest page j <= i whose first
\* marker is a numeral of I..XI, and undetermined when there is no such page; so a page
\* with no marker or with an unrecognised first marker leaves it as it was.
C20_ChapterCarried ==
    script = "miner" =>
        /\ current_chapter = CarriedChapter(data, Len(data))
        /\ \A n \in 1..Len(all_cands) :
               all_cands[n].chapter = CarriedChapter(data, all_cands[n].page)

\* the second page has a first marker that is not recognised, and its candidate has
\* the chapter of the first page
C20_Witness ==
    /\ script = "miner"
    /\ Len(data) = 2
    /\ FirstMarkerRecognised(data[1])
    /\ CHAPTER_RE(data[2]) = "XII"
    /\ current_chapter = 3
    /\ \E n \in 1..Len(all_cands) : all_cands[n].page = 2 /\ all_cands[n].chapter = 3


\* the URLs of the two page shapes the collector has an extractor for
RegisteredUrls == {GeneralsUrl, FoundersUrl}

\* request n of a run of the collector is the request that argument order asks for:
\* the check of URL k is request 2k-1 and its GET is request 2k
InArgumentOrder(n) ==
    /\ net[n].op = (IF n % 2 = 1 THEN "robots" ELSE "get")
    /\ (n + 1) \div 2 <= Len(args.url)
    /\ net[n].url = args.url[(n + 1) \div 2]

\* the GET that is request n follows a check of the same URL that allowed it, and
\* robots.txt was unreadable or did not disallow the URL
AfterAllowingCheck(n) ==
    /\ n > 1
    /\ net[n - 1].op = "robots"
    /\ net[n - 1].url = net[n].url
    /\ net[n - 1].ok
    /\ (env.unreadable \/ net[n].url \notin env.denied)

\* C21: in a run of the collector of official pages the robots.txt check of a URL
\* comes before the GET of that URL, a URL is fetched only if its check allowed it,
\* and the URLs are handled in argument order, the check of URL k+1 after the GET of
\* URL k
C21_CheckThenFetchInOrder ==
    script = "collect" =>
        \A n \in 1..Len(net) :
            /\ InArgumentOrder(n)
            /\ net[n].op = "get" => AfterAllowingCheck(n)

\* two different URLs were checked and fetched, each check before its GET, in a world
\* where robots.txt disallows some other URL
C21_Witness ==
    /\ script = "collect"
    /\ Len(net) = 4
    /\ net[2].url /= net[4].url
    /\ net[3].op = "robots"
    /\ env.denied /= {}
    /\ ~env.unreadable

\* every URL of the command line was allowed, fetched and of a registered shape
AllUrlsDone ==
    /\ Len(net) = 2 * Len(args.url)
    /\ \A k \in 1..Len(args.url) :
           /\ args.url[k] \in RegisteredUrls
           /\ args.url[k] \notin env.down
           /\ (env.unreadable \/ args.url[k] \notin env.denied)
           /\ net[2 * k - 1] = [op |-> "robots", url |-> args.url[k], ok |-> TRUE]
           /\ net[2 * k] = [op |-> "get", url |-> args.url[k], ok |-> TRUE]

\* a URL of the command line is disallowed by a readable robots.txt or has no
\* registered shape
SomeUrlRefused ==
    \E k \in 1..Len(args.url) :
        \/ ~env.unreadable /\ args.url[k] \in env.denied
        \/ args.url[k] \notin RegisteredUrls

\* C22: in a run of the collector of official pages the output file is never written
\* when a URL is denied by robots.txt or has an unrecognised shape, also when earlier
\* URLs were fetched and parsed, and it is written only after every URL was checked,
\* fetched and extracted
C22_AllOrNothing ==
    script = "collect" =>
        /\ SomeUrlRefused => outfile = <<>>
        /\ pc = "exit" => outfile = <<>>
        /\ outfile /= <<>> => AllUrlsDone /\ pc = "done" /\ nth = Len(args.url)

\* the run ended at its second URL after quotes of the first were extracted, and
\* nothing was written
C22_Witness ==
    /\ script = "collect"
    /\ pc = "exit"
    /\ nth = 1
    /\ all_quotes /= <<>>
    /\ SomeUrlRefused
    /\ outfile = <<>>

\* the output file was written, with the quotes of two pages
OutputWritten ==
    /\ script = "collect"
    /\ pc = "done"
    /\ Len(args.url) = 2
    /\ outfile /= <<>>
    /\ Len(outfile[1]) > 3

\* C30: the collector of official pages sends a GET only for a URL of a registered
\* page shape
C30_FetchOnlyRegistered ==
    script = "collect" =>
        \A n \in 1..Len(net) : net[n].op = "get" => net[n].url \in RegisteredUrls


\* the URLs of the requests of kind op, in the order they were made
RECURSIVE RequestsOf(_, _)
RequestsOf(log, op) ==
    IF log = <<>> THEN <<>>
    ELSE (IF Head(log).op = op THEN <<Head(log).url>> ELSE <<>>) \o RequestsOf(Tail(log), op)

\* the URLs the items of a list lead to, the items whose lookup fails left out
RECURSIVE UrlsOfItems(_)
UrlsOfItems(items) ==
    IF items = <<>> THEN <<>>
    ELSE (IF Head(items) \notin env.nometa /\ Head(items) /= WarCryIndex
          THEN <<StreamUrl(Head(items), FilesOf(Head(items)))>> ELSE <<>>)
         \o UrlsOfItems(Tail(items))

\* the members of a list
Range(seq) == {seq[n] : n \in 1..Len(seq)}

\* the hits of the texts that were fetched
FetchedHits ==
    UNION {Range(extract_candidates(TextOf(u), u, args.min_len, args.max_len)) :
              u \in {net[n].url : n \in {m \in 1..Len(net) : net[m].op = "get" /\ net[m].ok}}}

\* the written list holds hits of the set fetched only, one for each (author, text) of
\* such a hit and no two of the same (author, text)
HoldsHits(written, fetched) ==
    /\ \A n \in 1..Len(written) : written[n] \in fetched
    /\ \A h \in fetched :
           \E n \in 1..Len(written) : written[n].author = h.author /\ written[n].text = h.text
    /\ \A n, m \in 1..Len(written) :
           written[n].author = written[m].author /\ written[n].text = written[m].text => n = m

HoldsFetchedHits(written) == \E fetched \in {FetchedHits} : HoldsHits(written, fetched)

\* C23: in a run of the collector of archive texts a failing metadata lookup or text
\* fetch only skips that item or URL: the run never aborts, each item and each URL of
\* the lists is requested once, in order, and once all are handled the output file is
\* written with the hits of the texts that were fetched, possibly none
C23_SkipAndGoOn ==
    script = "wide" =>
        /\ pc \in {"items", "urls", "done"}
        /\ RequestsOf(net, "meta") = SubSeq(args.item, 1, Len(RequestsOf(net, "meta")))
        /\ \A n \in 1..Len(net) : net[n].ok = (net[n].url \notin env.nometa \cup env.down)
        /\ pc = "items" => outfile = <<>> /\ RequestsOf(net, "get") = <<>>
        /\ pc = "urls" =>
               /\ outfile = <<>>
               /\ RequestsOf(net, "meta") = args.item
               /\ urls = UrlsOfItems(args.item) \o args.djvu_txt
               /\ RequestsOf(net, "get") = SubSeq(urls, 1, nth)
        /\ pc = "done" =>
               /\ RequestsOf(net, "meta") = args.item
               /\ RequestsOf(net, "get") = UrlsOfItems(args.item) \o args.djvu_txt
               /\ outfile /= <<>>
               /\ HoldsFetchedHits(outfile[1])

\* a run in which the metadata lookup of the first item failed and the URL after it
\* was fetched, its hits written
C23_Witness ==
    /\ script = "wide"
    /\ pc = "done"
    /\ Len(net) = 2
    /\ net[1].op = "meta"
    /\ ~net[1].ok
    /\ net[2].op = "get"
    /\ net[2].ok
    /\ outfile[1] /= <<>>

\* a run in which the fetch of the first URL, found by the lookup of an item, failed
\* and the second URL was fetched, its hits written
FetchSkipped ==
    /\ script = "wide"
    /\ pc = "done"
    /\ RequestsOf(net, "get") = <<StreamUrl(WarCry1916, FilesOf(WarCry1916)), DirectUrl>>
    /\ env.down = {StreamUrl(WarCry1916, FilesOf(WarCry1916))}
    /\ Len(outfile[1]) = 2

\* a run in which nothing could be fetched wrote an empty list
NothingFetched ==
    /\ script = "wide"
    /\ pc = "done"
    /\ Len(net) = MaxUrls
    /\ \A n \in 1..Len(net) : ~net[n].ok
    /\ outfile = << <<>> >>

\* the same URL, given twice, was fetched twice and its hits were written once
FetchedTwice ==
    /\ script = "wide"
    /\ pc = "done"
    /\ RequestsOf(net, "get") = <<DirectUrl, DirectUrl>>
    /\ env.down = {}
    /\ Len(outfile[1]) = 2


\* C24: no candidate that extract_candidates_from_page of the 1923 miner emits holds
\* a chapter:verse pattern or the name of a book of the Bible, for every chapter and
\* every excerpt length between min_len and max_len
C24_NoScriptureEmitted ==
    script = "extract" /\ pc = "done" =>
        \A n \in 1..Len(result) : ~SCRIPTUREISH_RE(result[n].text)

\* candidates were emitted, none of them with a reference to the Bible
CleanCandidates ==
    /\ script = "extract"
    /\ pc = "done"
    /\ Len(result) >= 1
    /\ \A n \in 1..Len(result) : ~SCRIPTUREISH_RE(result[n].text)


\* C29: the final output of the 1923 miner is a part of the audit without repeats:
\* every selected record is a record of the deduplicated list, none is selected
\* twice, and no two selected records have the same canonical key
C29_SelectedFromAuditOnce ==
    script = "finish" /\ pc = "done" =>
        /\ \A n \in 1..Len(selected) : selected[n] \in Range(all_cands)
        /\ \A n, m \in 1..Len(selected) : selected[n] = selected[m] => n = m
        /\ \A n, m \in 1..Len(selected) :
               DedupeKey(selected[n].text) = DedupeKey(selected[m].text) => n = m

\* both passes took records of one doctrine, and the input held two records of one
\* key
C29_Witness ==
    /\ script = "finish"
    /\ pc = "done"
    /\ args.target = 11
    /\ Len(data) > Len(all_cands)
    /\ Len(selected) = 2
    /\ selected[1].doctrine = 1
    /\ selected[2].doctrine = 1


\* the number of anchors of a text
AnchorCount(s) == Cardinality(WE_BELIEVE_RE(s))

\* C28: for a text that holds n >= 2 anchors once its boilerplate is stripped,
\* split_we_believe_blocks returns at most n chunks, each of which begins with an
\* anchor and holds exactly one anchor
C28_OneAnchorEach ==
    script = "split" /\ pc = "done" /\ AnchorCount(strip_boilerplate(data[1])) >= 2 =>
        /\ Len(result) <= AnchorCount(strip_boilerplate(data[1]))
        /\ \A n \in 1..Len(result) :
               BeginsWithAnchor(result[n]) /\ AnchorCount(result[n]) = 1

\* a text of three statements was split into three chunks of one anchor each
SplitInThree ==
    /\ script = "split"
    /\ pc = "done"
    /\ AnchorCount(strip_boilerplate(data[1])) = 3
    /\ Len(result) = 3
    /\ \A n \in 1..Len(result) : BeginsWithAnchor(result[n]) /\ AnchorCount(result[n]) = 1


\* C27: the text of every record the filter writes, as written, has a length
\* between min_len and max_len
C27_WrittenWithinBounds ==
    script = "filter" /\ pc = "done" =>
        \A f \in 1..2 : \A n \in 1..Len(outfile[f]) :
            /\ args.min_len <= Len(outfile[f][n].text)
            /\ Len(outfile[f][n].text) <= args.max_len

\* two records were written, both within the bounds, and one was left out
FilterWroteTwo ==
    /\ script = "filter"
    /\ pc = "done"
    /\ Len(outfile[1]) = 1
    /\ Len(data) = 2
    /\ outfile[1][1].text = "God is love."


\* the page has no chapter marker of either style
NoChapterMarker(page_text) ==
    CHAPTER_2010_RE(page_text) = "" /\ CHAPTER_ROMAN_1923_RE(page_text) = ""

\* C25: within one PDF the miner of both handbooks gives a page with no chapter
\* marker of either style the doctrine of the page before it
C25_DoctrineCarried ==
    script = "handbook" =>
        \A n \in 2..Len(result) :
            result[n].pdf = result[n - 1].pdf /\ NoChapterMarker(result[n].text) =>
                result[n].doctrine = result[n - 1].doctrine

\* a page without a marker took the doctrine of the page before it, which had one
DoctrineKept ==
    /\ script = "handbook"
    /\ Len(result) = 2
    /\ NoChapterMarker(result[2].text)
    /\ result[1].doctrine /= None
    /\ result[2].doctrine = result[1].doctrine

\* C26: dedupe_candidates treats two texts with the same sequence of lowercase
\* alphanumeric words as one quotation: the list the miner of both handbooks writes
\* holds no two records whose texts, lowercased and with every run of other
\* characters collapsed to one space, are the same
C26_OnePerWordSequence ==
    script = "handbook" /\ pc = "done" =>
        \A n, m \in 1..Len(outfile[1]) :
            DedupeKey(outfile[1][n].text) = DedupeKey(outfile[1][m].text) => n = m

\* two pages with the same sentence gave one record
DuplicateRemoved ==
    /\ script = "handbook"
    /\ pc = "done"
    /\ Len(result) = 2
    /\ result[1].text = PageRomanTwo
    /\ result[2].text = PageNoMarker
    /\ args.max_per_doctrine = 80
    /\ Len(outfile[1]) = 2

====
